---- MODULE Spec2Model ----
(***************************************************************************)
(* kk-alert: rule scheduler, alert store and webhook ingress.              *)
(*                                                                         *)
(* Instants are seconds on one clock (now).  A value of a series is an     *)
(* integer number of thousandths, so that rounding to two decimals is a    *)
(* real operation.  The store is taken to be reliable: a Find/Save/Create  *)
(* returns without error (the `continue` branches taken on a failed write  *)
(* are outside the model).  A fingerprint (sha256 of a payload string) is  *)
(* modelled by the tuple of the payload's components.                      *)
(***************************************************************************)
EXTENDS Integers, Sequences, FiniteSets, TLC

VARIABLES
    now,         \* wall clock, seconds
    alerts,      \* store: the rows of table alerts
    nextId,      \* number of ids minted by uuid.New() so far, plus one
    stateCache,  \* scheduler: ruleId -> lastResults (fingerprint -> queryResult)
    rule,        \* the rule row the scheduler evaluates
    absRun,      \* history: per fingerprint, length of the current run of evaluations without it
    evalLog,     \* history: what the latest evaluation read, got and did
    reqs,        \* webhook ingress: the requests in flight
    served,      \* webhook ingress: number of payload elements taken up so far
    alertQueue,  \* engine: the buffered channel of alert jobs
    procs,       \* engine: the goroutines that run ProcessAlert
    sendRecords, \* store: table alert_send_records, in insertion order
    jiraCreated, \* store: table jira_createds
    jiraIssues,  \* Jira: the issues created by jira.CreateIssue, in order
    suppressionWindows, \* engine: ruleId -> end of the suppression window
    sourceSeen,  \* history: ruleId -> when an alert matching sourceLabels was last processed
    aggLastSent, \* engine: aggregation state key -> time of the last aggregated dispatch
    arrived,     \* engine: number of calls of ProcessAlertAsync so far
    entered,     \* history: number of entries into ProcessAlert so far
    engRules,    \* store: the enabled rules, by priority
    mtArgs,      \* MatchThreshold: the arguments of the call
    mtResult,    \* MatchThreshold: what the call returned
    mrArgs,      \* matchRule: the arguments of the call
    mrResult,    \* matchRule: what the call returned
    silences,    \* store: table alert_silences
    ruleRow,     \* store: the row of the rule the task table is about
    tasks,       \* Scheduler.tasks: ruleId -> the task launched for it
    taskRuns,    \* the runTask goroutines launched so far, in order
    stopChan,    \* Scheduler.stopChan: TRUE when closed
    reloader,    \* the goroutine of Start that reloads on a ticker
    main,        \* the goroutine that calls Start and Stop
    tokens,      \* larkLimiter.tokens
    lastTime,    \* larkLimiter.lastTime, in token periods
    clock,       \* the limiter's clock, in token periods (1/rate seconds)
    acquirers,   \* the goroutines that call larkLimiter.acquire
    returned,    \* history: the instants at which acquire returned, in order
    sends,       \* the goroutines that call sender.Send
    callArgs,    \* inExcludeWindow, KeyForSeriesWithRule: the arguments of the call
    callResult,  \* what the call returned
    datasource,  \* the datasources row the rule points at
    sweep,       \* RunRetentionCleanup: its position, its id list and its cutoff
    stateMu,     \* the lock of stateCache
    stateLocks,  \* queryState.mu of each rule's entry
    lockers      \* the goroutines that take these locks, and where they are

schedVars == <<stateCache, rule, absRun, evalLog>>
whVars == <<reqs, served>>
engStore == <<sendRecords, jiraCreated, jiraIssues>>
engMemory == <<suppressionWindows, sourceSeen, aggLastSent>>
engVars == <<alertQueue, procs, engStore, engMemory, arrived, entered, engRules>>
pureVars == <<mtArgs, mtResult, mrArgs, mrResult>>
taskVars == <<ruleRow, tasks, taskRuns, stopChan, reloader, main>>
senderVars == <<tokens, lastTime, clock, acquirers, returned, sends>>
callVars == <<callArgs, callResult>>
lockVars == <<stateMu, stateLocks, lockers>>
extraVars == <<callVars, datasource, sweep, lockVars>>
restVars == <<pureVars, taskVars, silences, senderVars, extraVars>>
otherVars == <<alerts, nextId, schedVars, whVars, restVars>>
vars == <<now, alerts, nextId, schedVars, whVars, engVars, restVars>>

----------------------------------------------------------------------------
(* Bounds of the model *)

MaxTicks == 2       \* the clock advances at most this many times
MaxAlerts == 2      \* at most this many ids are minted
MaxServed == 3      \* at most this many webhook payload elements are taken up
MaxLevels == 2      \* at most this many threshold levels in a call of MatchThreshold
MaxArrivals == 2    \* at most this many alerts are handed to the engine
MaxTasks == 3       \* at most this many evaluation tasks are launched
MaxAcquires == 5    \* at most this many calls of acquire
MaxClock == 3       \* the limiter's clock advances at most this many token periods
MaxSends == 3       \* at most this many calls of Send
MaxWindows == 2     \* at most this many exclude windows of a rule
MaxIndex == 2       \* positions 0..MaxIndex of a series in a query result
QueueSlots == 1     \* capacity of alertQueue (500 in the source)

(* Program constants *)

resolveGracePeriod == 3
ReprocessSeconds == 60

NoId == 0           \* the empty string as an alert id
RecoveryWindowSeconds == 120
NoTime == -1        \* the zero time.Time / a nil *time.Time

TickSeconds == ReprocessSeconds \div 2

----------------------------------------------------------------------------
(* Store *)

Handlers == {"w1", "w2"}        \* webhook request tasks that can be in flight together

Idle == [pc |-> "idle"]

\* The source starts numWorkers = 8 workers; the model runs two of them, and two
\* slots for the goroutines outside the pool (the inline fallback of a full
\* queue, and webhook requests that call ProcessAlert themselves).
Workers == {"k1", "k2"}
DetachedOrder == <<"d1", "d2", "d3">>
Detached == {DetachedOrder[i] : i \in DOMAIN DetachedOrder}
Procs == Workers \cup Detached

IdleProc == [pc |-> "idle"]

FindFiring(rows, src, ext) ==
    {a \in rows : a.sourceId = src /\ a.externalId = ext /\ a.status = "firing"}

FindById(rows, id) == {a \in rows : a.id = id}

\* db.Save: update every column of the row with this primary key, insert when
\* there is none.
Save(rows, a) == {x \in rows : x.id # a.id} \cup {a}

\* db.Create: insert; createdAt is stamped by the store.
Create(rows, a, t) == rows \cup {[a EXCEPT !.createdAt = t]}

\* The scheduler's task table after NewScheduler, before Start.
NoReload == [pc |-> "none", rules |-> {}]

NewScheduler ==
    /\ ruleRow = "enabled"
    /\ tasks = <<>>
    /\ taskRuns = <<>>
    /\ stopChan = FALSE
    /\ reloader = NoReload
    /\ main = [pc |-> "new", rules |-> {}]

\* Package sender when the process starts: a full bucket, nobody sending.
burst == 3
rate == 5
maxSendRetries == 3
retryDelay == 1

IdleAcquirer == [pc |-> "idle", wake |-> 0, calls |-> 0]
IdleSend == [pc |-> "idle", channelType |-> "", configOk |-> TRUE, attempt |-> 0,
             slept |-> 0, lastErr |-> ""]

NewSender ==
    /\ tokens = burst
    /\ lastTime = NoTime
    /\ clock = 0
    /\ acquirers = [c \in Workers |-> IdleAcquirer]
    /\ returned = <<>>
    /\ sends = [c \in Workers |-> IdleSend]

----------------------------------------------------------------------------
(* Thresholds *)

Compare(op, v, w) ==
    CASE op = ">"  -> v > w
      [] op = ">=" -> v >= w
      [] op = "<"  -> v < w
      [] op = "<=" -> v <= w
      [] op = "==" -> v = w
      [] op = "!=" -> v # w
      [] OTHER     -> v > w

RECURSIVE MatchFrom(_, _, _)
MatchFrom(levels, value, i) ==
    IF i > Len(levels) THEN 0
    ELSE IF Compare(levels[i].operator, value, levels[i].value) THEN i
    ELSE MatchFrom(levels, value, i + 1)

\* A call of MatchThreshold that ignores the order of the levels.
MatchHighest(levels, value) ==
    LET hit == {i \in DOMAIN levels : Compare(levels[i].operator, value, levels[i].value)}
    IN  IF hit = {} THEN 0 ELSE CHOOSE i \in hit : \A j \in hit : j <= i

\* Index of the matched level, 0 for nil.
MatchThreshold(levels, value) == MatchFrom(levels, value, 1)

NoArgs == [levels |-> <<>>, value |-> 0]
NoCall == [called |-> FALSE, index |-> 0]
NoMatchArgs == [r |-> <<>>, a |-> <<>>, labels |-> <<>>]
NoMatch == [called |-> FALSE, matched |-> FALSE]
NotCalled == [called |-> FALSE, value |-> FALSE]

\* No call of a function under study is in progress.
\* A sync.RWMutex: the goroutine inside Lock, the goroutine that has announced
\* a Lock and waits for the readers to leave, and the goroutines inside RLock.
Unlocked == [writer |-> "", pending |-> "", readers |-> {}]

\* Evaluations of rule 1 by its task and by RunRuleNow, of rule 2 by its task,
\* and two callers of FiringCountByRule.
Evaluators == [t1 |-> 1, n1 |-> 1, t2 |-> 2]
Readers == {"f1", "f2"}
Lockers == (DOMAIN Evaluators) \cup Readers
LockRules == {1, 2}

IdleLocker == [pc |-> "idle", todo |-> {}, cur |-> 0]

NoLockers ==
    /\ stateMu = Unlocked
    /\ stateLocks = [r \in LockRules |-> Unlocked]
    /\ lockers = [p \in Lockers |-> IdleLocker]

\* RunRetentionCleanup is not running.
NoSweep == [pc |-> "idle", ids |-> {}, cutoff |-> 0]

Prometheus == [found |-> TRUE, enabled |-> TRUE, type |-> "prometheus"]

NoExtras ==
    /\ callArgs = <<>>
    /\ callResult = NotCalled
    /\ datasource = Prometheus
    /\ sweep = NoSweep
    /\ NoLockers

\* The column is "", "[]", "null", or the JSON text of a list of levels.
ParseNothing(raw) == <<>>

ParseThresholds(raw) ==
    IF raw.text \in {"", "[]", "null"} THEN <<>> ELSE raw.levels

----------------------------------------------------------------------------
(* Fingerprint and title *)

Label(labels, k) == IF k \in DOMAIN labels THEN labels[k] ELSE ""

formatMetric(metric) ==
    IF "instance" \in DOMAIN metric THEN metric["instance"]
    ELSE IF "__name__" \in DOMAIN metric THEN metric["__name__"]
    ELSE "unknown"

\* The key without the rule id (KeyForSeries).
KeyWithoutRule(sourceID, ruleID, title, labels, resultIndex) ==
    <<sourceID, 0, title, labels,
      IF resultIndex >= 0 /\ Label(labels, "instance") = "" /\ Label(labels, "job") = ""
      THEN resultIndex ELSE -1>>

KeyForSeriesWithRule(sourceID, ruleID, title, labels, resultIndex) ==
    <<sourceID, ruleID, title, labels,
      IF resultIndex >= 0 /\ Label(labels, "instance") = "" /\ Label(labels, "job") = ""
      THEN resultIndex ELSE -1>>

roundValue(v) ==
    IF v >= 0 THEN ((v + 5) \div 10) * 10 ELSE -((((-v) + 5) \div 10) * 10)

----------------------------------------------------------------------------
(* Rule scheduler: one evaluation (queryPrometheus) *)

\* The instant vectors a query can return: series with distinct label sets.
Metrics == {[instance |-> "h1"]}
Values == {1000, 2000, 2004}
Samples == [metric : Metrics, value : Values]
Results ==
    {<<>>} \cup {<<s>> : s \in Samples}
           \cup {p \in Samples \X Samples : p[1].metric # p[2].metric}

NoThresholds == [text |-> "", levels |-> <<>>]
EmptyList == [text |-> "[]", levels |-> <<>>]
NullText == [text |-> "null", levels |-> <<>>]
TwoLevels ==
    [text |-> "json",
     levels |-> << [operator |-> ">=", value |-> 2004, severity |-> "critical", channelIds |-> <<7>>],
                   [operator |-> ">=", value |-> 2000, severity |-> "", channelIds |-> <<>>] >>]

Rules ==
    {[id |-> 1, name |-> "cpu", matchSeverity |-> sev, datasourceIds |-> <<1>>, thresholds |-> th] :
        sev \in {""}, th \in {NoThresholds, EmptyList, NullText, TwoLevels}}

\* What ProcessAlertAsync is given: a copy of the alert.
Job(a) == [id |-> a.id, status |-> a.status]

NoResult == [metric |-> <<>>, value |-> 0, timestamp |-> NoTime, alertId |-> NoId,
             severity |-> "", missCount |-> 0]

WithoutNothing(f, k) == f

Without(f, k) == [x \in (DOMAIN f) \ {k} |-> f[x]]

DropFiringAt(exists, t) == t

\* A firing row of the given alert id keeps its firingAt when it is not the zero time.
KeepFiringAt(exists, t) ==
    IF exists # {} /\ (CHOOSE a \in exists : TRUE).firingAt # NoTime
    THEN (CHOOSE a \in exists : TRUE).firingAt ELSE t

KeepCreatedAt(exists) ==
    IF exists # {} THEN (CHOOSE a \in exists : TRUE).createdAt ELSE NoTime

AlwaysProcess(hadResult, lastResult, value, t) == TRUE

\* Only a changed value is processed again.
ValueChangedOnly(hadResult, lastResult, value, t) ==
    ~hadResult \/ roundValue(lastResult.value) # roundValue(value)

\* valueChanged || needsReprocess
NeedsProcessing(hadResult, lastResult, value, t) ==
    LET valueChanged == ~hadResult \/ roundValue(lastResult.value) # roundValue(value)
        needsReprocess == /\ hadResult /\ ~valueChanged /\ lastResult.alertId # NoId
                          /\ t - lastResult.timestamp >= ReprocessSeconds
    IN  valueChanged \/ needsReprocess

KeepMiss(lastResult) == lastResult

\* A series that reappears without being processed has its miss counter reset.
ResetMiss(lastResult) == [lastResult EXCEPT !.missCount = 0]

\* One iteration of `for i, r := range result.Data.Result` (i counts from 1 here).
SeriesStep(acc, r, dsId, t, i, s) ==
    LET thresholds == ParseThresholds(r.thresholds)
        m == MatchThreshold(thresholds, s.value)
        severity ==
            IF thresholds = <<>>
            THEN (IF r.matchSeverity = "" THEN "warning" ELSE r.matchSeverity)
            ELSE (IF thresholds[m].severity = "" THEN "warning" ELSE thresholds[m].severity)
        annotations ==
            [value |-> s.value,
             threshold_channel_ids |-> IF thresholds = <<>> THEN <<>> ELSE thresholds[m].channelIds]
        title == <<r.name, formatMetric(s.metric)>>
        extKey == KeyForSeriesWithRule(dsId, r.id, title, s.metric, i - 1)
        hadResult == extKey \in DOMAIN acc.lr
        lastResult == IF hadResult THEN acc.lr[extKey] ELSE NoResult
        existingFiring == FindFiring(acc.rows, dsId, extKey)
        alertID ==
            IF lastResult.alertId # NoId THEN lastResult.alertId
            ELSE IF existingFiring # {} THEN (CHOOSE a \in existingFiring : TRUE).id
            ELSE acc.next
        minted == lastResult.alertId = NoId /\ existingFiring = {}
        exists == FindById(acc.rows, alertID)
        alert == [id |-> alertID, sourceId |-> dsId, externalId |-> extKey, title |-> title,
                  severity |-> severity, status |-> "firing",
                  firingAt |-> KeepFiringAt(exists, t), resolvedAt |-> NoTime,
                  labels |-> s.metric, annotations |-> annotations,
                  createdAt |-> KeepCreatedAt(exists)]
        rows2 == IF exists # {} THEN Save(acc.rows, alert) ELSE Create(acc.rows, alert, t)
        stored == CHOOSE a \in rows2 : a.id = alertID
    IN  IF thresholds # <<>> /\ m = 0 THEN acc
        ELSE IF NeedsProcessing(hadResult, lastResult, s.value, t)
        THEN [acc EXCEPT
                !.cur = @ \cup {extKey},
                !.rows = rows2,
                !.next = IF minted THEN @ + 1 ELSE @,
                !.handed = Append(@, Job(stored)),
                !.upserted = @ \cup {extKey},
                !.lr = (extKey :> [metric |-> s.metric, value |-> s.value, timestamp |-> t,
                                   alertId |-> alertID, severity |-> severity, missCount |-> 0])
                       @@ @]
        ELSE IF hadResult /\ lastResult.missCount > 0
        THEN [acc EXCEPT !.cur = @ \cup {extKey}, !.lr[extKey] = ResetMiss(lastResult)]
        ELSE [acc EXCEPT !.cur = @ \cup {extKey}]

RECURSIVE SeriesFrom(_, _, _, _, _, _)
SeriesFrom(acc, r, dsId, t, result, i) ==
    IF i > Len(result) THEN acc
    ELSE SeriesFrom(SeriesStep(acc, r, dsId, t, i, result[i]), r, dsId, t, result, i + 1)

GraceOverEarly(missCount) == missCount >= resolveGracePeriod - 1

\* The grace period is over for a series absent this many evaluations in a row.
GraceOver(missCount) == missCount >= resolveGracePeriod

\* One iteration of `for extKey, lastResult := range state.lastResults`.
ScanStep(acc, t, extKey) ==
    IF extKey \in acc.cur THEN acc
    ELSE LET last == [acc.lr[extKey] EXCEPT !.missCount = @ + 1]
             found == IF last.alertId # NoId THEN FindById(acc.rows, last.alertId) ELSE {}
             firing == {a \in found : a.status = "firing"}
             resolvedRow == [(CHOOSE a \in firing : TRUE) EXCEPT
                                !.status = "resolved", !.resolvedAt = t]
         IN  IF ~GraceOver(last.missCount) THEN [acc EXCEPT !.lr[extKey] = last]
             ELSE IF firing = {} THEN [acc EXCEPT !.lr = Without(@, extKey)]
             ELSE [acc EXCEPT
                     !.rows = Save(@, resolvedRow),
                     !.handed = Append(@, Job(resolvedRow)),
                     !.lr = Without(@, extKey)]

RECURSIVE ScanFrom(_, _, _, _)
ScanFrom(acc, t, order, j) ==
    IF j > Len(order) THEN acc
    ELSE ScanFrom(ScanStep(acc, t, order[j]), t, order, j + 1)

\* The orders in which a range over a map can visit its keys.
Orders(S) ==
    {q \in [1..Cardinality(S) -> S] : \A i, j \in 1..Cardinality(S) : i # j => q[i] # q[j]}

NextRun(run, present) ==
    IF present THEN 0
    ELSE IF run < resolveGracePeriod THEN run + 1 ELSE run

NoEval == [ran |-> FALSE, result |-> <<>>, cur |-> {}, preMiss |-> <<>>, upserted |-> {}, handed |-> <<>>,
           skipped |-> ""]

\* evaluateRule -> queryPrometheus for the rule, with the query's answer `result`;
\* called by the rule's task (runTask) and by RunRuleNow, serialised by state.mu.
queryPrometheus(result) ==
    /\ rule.datasourceIds # <<>>
    /\ LET dsId == rule.datasourceIds[1]
           lr0 == IF rule.id \in DOMAIN stateCache THEN stateCache[rule.id] ELSE <<>>
           acc0 == [rows |-> alerts, lr |-> lr0, cur |-> {}, next |-> nextId,
                    handed |-> <<>>, upserted |-> {}]
           acc1 == SeriesFrom(acc0, rule, dsId, now, result, 1)
       IN  \E order \in Orders(DOMAIN acc1.lr) :
             LET acc2 == ScanFrom(acc1, now, order, 1) IN
             /\ acc2.next <= MaxAlerts + 1
             /\ alerts' = acc2.rows
             /\ nextId' = acc2.next
             /\ stateCache' = (rule.id :> acc2.lr) @@ stateCache
             /\ absRun' = [k \in (DOMAIN absRun) \cup acc2.cur |->
                              NextRun(IF k \in DOMAIN absRun THEN absRun[k] ELSE 0, k \in acc2.cur)]
             /\ evalLog' = [ran |-> TRUE, result |-> result, cur |-> acc2.cur,
                            preMiss |-> [k \in DOMAIN lr0 |-> lr0[k].missCount],
                            upserted |-> acc2.upserted, handed |-> acc2.handed,
                            skipped |-> ""]
    /\ UNCHANGED <<now, rule, whVars, engVars, restVars>>

Evaluate == \E result \in Results : queryPrometheus(result)

\* The process restarts: the package-level stateCache is empty again.
Restart ==
    /\ stateCache # <<>>
    /\ stateCache' = <<>>
    /\ evalLog' = NoEval
    /\ UNCHANGED <<now, alerts, nextId, rule, absRun, whVars, engVars, restVars>>

Tick ==
    /\ now + TickSeconds <= MaxTicks * TickSeconds
    /\ now' = now + TickSeconds
    /\ UNCHANGED <<alerts, nextId, schedVars, whVars, engVars, restVars>>

InitSched ==
    /\ now = 0
    /\ alerts = {}
    /\ nextId = 1
    /\ stateCache = <<>>
    /\ rule \in Rules
    /\ absRun = <<>>
    /\ evalLog = NoEval
    /\ reqs = [h \in Handlers |-> Idle]
    /\ served = 0
    /\ alertQueue = <<>>
    /\ procs = [p \in Procs |-> IdleProc]
    /\ sendRecords = <<>>
    /\ jiraCreated = {}
    /\ jiraIssues = <<>>
    /\ suppressionWindows = <<>>
    /\ sourceSeen = <<>>
    /\ aggLastSent = <<>>
    /\ arrived = 0
    /\ entered = 0
    /\ NewScheduler
    /\ NewSender
    /\ silences = {}
    /\ mtArgs = NoArgs
    /\ mtResult = NoCall
    /\ mrArgs = NoMatchArgs
    /\ mrResult = NoMatch
    /\ NoExtras
    /\ engRules = <<>>

NextSched == Evaluate \/ Restart \/ Tick

SpecSched == InitSched /\ [][NextSched]_vars

----------------------------------------------------------------------------
(* Rule scheduler: evaluateRule in front of queryPrometheus *)

\* The datasources row of the rule's first datasource id: absent, disabled, of
\* a type evaluateRule does not query, or queried.
Datasources ==
    {Prometheus,
     [found |-> TRUE, enabled |-> TRUE, type |-> "victoriametrics"],
     [found |-> FALSE, enabled |-> FALSE, type |-> ""],
     [found |-> TRUE, enabled |-> FALSE, type |-> "prometheus"],
     [found |-> TRUE, enabled |-> TRUE, type |-> "elasticsearch"]}

\* What client.Query returns: an error (transport, status, timeout), or a result.
Answers ==
    {[err |-> TRUE, result |-> <<>>]} \cup {[err |-> FALSE, result |-> r] : r \in Results}

EvalRules ==
    {r \in Rules : r.thresholds = NoThresholds}
    \cup {[r EXCEPT !.datasourceIds = <<>>] : r \in {q \in Rules : q.thresholds = NoThresholds}}

\* Why evaluateRule returns before the results are looked at, "" if it does not.
SkipReason(r, ds, answer) ==
    IF r.datasourceIds = <<>> \/ r.datasourceIds[1] = 0 THEN "no datasource"
    ELSE IF ~ds.found THEN "not found"
    ELSE IF ~ds.enabled THEN "disabled"
    ELSE IF ds.type \notin {"prometheus", "victoriametrics"} THEN "unsupported type"
    ELSE IF answer.err THEN "query failed"
    ELSE ""

\* A skipped evaluation counted as one in which every series is absent.
SkipCountsMiss(reason) ==
    /\ evalLog' = [NoEval EXCEPT !.skipped = reason]
    /\ stateCache' = [id \in DOMAIN stateCache |->
                         [k \in DOMAIN stateCache[id] |->
                             [stateCache[id][k] EXCEPT !.missCount = @ + 1]]]
    /\ UNCHANGED <<now, alerts, nextId, rule, absRun, whVars, engVars, restVars>>

\* The early returns of evaluateRule and of queryPrometheus: a log line only.
SkipEvaluation(reason) ==
    /\ evalLog' = [NoEval EXCEPT !.skipped = reason]
    /\ UNCHANGED <<now, alerts, nextId, stateCache, rule, absRun, whVars, engVars, restVars>>

evaluateRule(answer) ==
    IF SkipReason(rule, datasource, answer) # ""
    THEN SkipEvaluation(SkipReason(rule, datasource, answer))
    ELSE queryPrometheus(answer.result)

RunEvaluateRule == \E answer \in Answers : evaluateRule(answer)

\* The datasources row is edited, deleted or created through the API.
SetDatasource ==
    /\ \E ds \in Datasources \ {datasource} : datasource' = ds
    /\ UNCHANGED <<now, alerts, nextId, schedVars, whVars, engVars, pureVars, taskVars,
                   silences, senderVars, callVars, sweep, lockVars>>

InitEval ==
    /\ now = 0
    /\ alerts = {}
    /\ nextId = 1
    /\ stateCache = <<>>
    /\ rule \in EvalRules
    /\ absRun = <<>>
    /\ evalLog = NoEval
    /\ reqs = [h \in Handlers |-> Idle]
    /\ served = 0
    /\ alertQueue = <<>>
    /\ procs = [p \in Procs |-> IdleProc]
    /\ sendRecords = <<>>
    /\ jiraCreated = {}
    /\ jiraIssues = <<>>
    /\ suppressionWindows = <<>>
    /\ sourceSeen = <<>>
    /\ aggLastSent = <<>>
    /\ arrived = 0
    /\ entered = 0
    /\ NewScheduler
    /\ NewSender
    /\ silences = {}
    /\ mtArgs = NoArgs
    /\ mtResult = NoCall
    /\ mrArgs = NoMatchArgs
    /\ mrResult = NoMatch
    /\ callArgs = <<>>
    /\ callResult = NotCalled
    /\ datasource \in Datasources
    /\ sweep = NoSweep
    /\ NoLockers
    /\ engRules = <<>>

NextEval == RunEvaluateRule \/ SetDatasource \/ Tick

SpecEval == InitEval /\ [][NextEval]_vars

----------------------------------------------------------------------------
(* MatchThreshold as a function of its arguments *)

\* "~" stands for an operator MatchThreshold does not know.
Operators == {">", ">=", "<", "<=", "==", "!=", "~"}

Levels == [operator : Operators, value : {2000, 2004}, severity : {""}, channelIds : {<<>>}]

LevelLists == UNION {[1..n -> Levels] : n \in 0..MaxLevels}

CallMatchThreshold ==
    /\ ~mtResult.called
    /\ mtResult' = [called |-> TRUE, index |-> MatchThreshold(mtArgs.levels, mtArgs.value)]
    /\ UNCHANGED <<now, alerts, nextId, schedVars, whVars, engVars, mtArgs, mrArgs, mrResult, taskVars, silences, senderVars, extraVars>>

InitThreshold ==
    /\ now = 0
    /\ alerts = {}
    /\ nextId = 1
    /\ stateCache = <<>>
    /\ rule \in {r \in Rules : r.thresholds = NoThresholds}
    /\ absRun = <<>>
    /\ evalLog = NoEval
    /\ reqs = [h \in Handlers |-> Idle]
    /\ served = 0
    /\ alertQueue = <<>>
    /\ procs = [p \in Procs |-> IdleProc]
    /\ sendRecords = <<>>
    /\ jiraCreated = {}
    /\ jiraIssues = <<>>
    /\ suppressionWindows = <<>>
    /\ sourceSeen = <<>>
    /\ aggLastSent = <<>>
    /\ arrived = 0
    /\ entered = 0
    /\ NewScheduler
    /\ NewSender
    /\ silences = {}
    /\ engRules = <<>>
    /\ mtArgs \in [levels : LevelLists, value : Values]
    /\ mtResult = NoCall
    /\ mrArgs = NoMatchArgs
    /\ mrResult = NoMatch
    /\ NoExtras

NextThreshold == CallMatchThreshold

SpecThreshold == InitThreshold /\ [][NextThreshold]_vars

\* The comparison a level stands for.
Holds(l, v) ==
    IF l.operator = ">=" THEN v >= l.value
    ELSE IF l.operator = "<" THEN v < l.value
    ELSE IF l.operator = "<=" THEN v <= l.value
    ELSE IF l.operator = "==" THEN v = l.value
    ELSE IF l.operator = "!=" THEN v # l.value
    ELSE v > l.value

\* C15: MatchThreshold returns the lowest index whose comparison holds (an
\* unknown operator being read as >), and nil exactly when none holds.
C15_FirstMatch ==
    mtResult.called =>
      LET hit == {i \in DOMAIN mtArgs.levels : Holds(mtArgs.levels[i], mtArgs.value)}
      IN  /\ hit = {} <=> mtResult.index = 0
          /\ hit # {} => mtResult.index \in hit /\ \A j \in hit : mtResult.index <= j

\* The second of two levels matched, through an unknown operator.
C15_Witness ==
    /\ mtResult.called
    /\ mtResult.index = 2
    /\ mtArgs.levels[2].operator = "~"
    /\ mtArgs.levels[1].operator = "=="

----------------------------------------------------------------------------
(* Webhook ingress: PrometheusHandler.Serve and GenericHandler.Serve *)

\* dedup.Key: the three-argument fingerprint (no rule id, no result index).
Key(sourceID, title, labels) == <<sourceID, title, labels, -1>>

\* One element of payload.Alerts as the handler decodes it.
Payloads ==
    {a \in [kind : {"prometheus", "generic"},
            status : {"firing", "resolved", ""},
            title : {"disk"},
            severity : {"", "critical"},
            labels : {[job |-> "node"]},
            annotations : {[summary |-> "disk"]},
            startsAt : {NoTime, 0},
            hasEndsAt : BOOLEAN] :
        /\ a.kind = "prometheus" => a.severity = "" /\ a.status # ""
        /\ a.status # "resolved" => ~a.hasEndsAt}

PromStatus(a) == IF a.status = "resolved" THEN "resolved" ELSE "firing"
GenericStatus(a) == IF a.status = "" THEN "firing" ELSE a.status

PromTitle(a) ==
    IF Label(a.annotations, "summary") # "" THEN a.annotations["summary"]
    ELSE IF Label(a.annotations, "alertname") # "" THEN a.annotations["alertname"]
    ELSE "Alert"
GenericTitle(a) == IF a.title = "" THEN "Alert" ELSE a.title

PromSeverity(a) ==
    IF Label(a.labels, "severity") = "" THEN "warning" ELSE a.labels["severity"]
GenericSeverity(a) == IF a.severity = "" THEN "warning" ELSE a.severity

\* firingAt of the payload: startsAt, or the current time when it is missing.
PayloadFiringAt(a, t) == IF a.startsAt = NoTime THEN t ELSE a.startsAt

\* resolvedAt of the payload: endsAt when it parses, nil otherwise.
PayloadResolvedAt(a, t) == IF a.hasEndsAt THEN t ELSE NoTime

\* The handler decodes the element and looks up the firing row of its fingerprint.
WebhookLookup(h, a, sourceID) ==
    /\ reqs[h].pc = "idle"
    /\ served < MaxServed
    /\ served' = served + 1
    /\ LET prom == a.kind = "prometheus"
           title == IF prom THEN PromTitle(a) ELSE GenericTitle(a)
           externalID == Key(sourceID, title, a.labels)
           found == FindFiring(alerts, sourceID, externalID)
           req == [pc |-> "write",
                   status |-> IF prom THEN PromStatus(a) ELSE GenericStatus(a),
                   sourceId |-> sourceID, externalId |-> externalID, title |-> title,
                   severity |-> IF prom THEN PromSeverity(a) ELSE GenericSeverity(a),
                   firingAt |-> PayloadFiringAt(a, now),
                   resolvedAt |-> PayloadResolvedAt(a, now),
                   labels |-> a.labels, annotations |-> a.annotations]
       IN  \/ /\ found = {}
              /\ reqs' = [reqs EXCEPT ![h] = req @@ [hasFiring |-> FALSE, alert |-> <<>>]]
           \/ \E row \in found :
                 reqs' = [reqs EXCEPT ![h] = req @@ [hasFiring |-> TRUE, alert |-> row]]
    /\ UNCHANGED <<now, alerts, nextId, schedVars, engVars, restVars>>

\* The row written for a firing element when a firing row was found.
FiringUpdate(q) ==
    [q.alert EXCEPT !.title = q.title, !.severity = q.severity, !.firingAt = q.firingAt,
                    !.labels = q.labels, !.annotations = q.annotations]

\* The row written for a resolved element when a firing row was found.
ResolvedUpdate(q) ==
    [q.alert EXCEPT !.status = "resolved", !.resolvedAt = q.resolvedAt, !.title = q.title,
                    !.labels = q.labels, !.annotations = q.annotations]

NewRow(q, id, status) ==
    [id |-> id, sourceId |-> q.sourceId, externalId |-> q.externalId, title |-> q.title,
     severity |-> q.severity, status |-> status, firingAt |-> q.firingAt,
     resolvedAt |-> IF status = "resolved" THEN q.resolvedAt ELSE NoTime,
     labels |-> q.labels, annotations |-> q.annotations, createdAt |-> NoTime]

\* The handler writes the row (Save or Create) and calls engine.ProcessAlert,
\* which reads the store and writes no alert row.
WebhookWrite(h) ==
    /\ reqs[h].pc = "write"
    /\ LET q == reqs[h] IN
         IF q.hasFiring
         THEN /\ alerts' = Save(alerts, IF q.status = "resolved"
                                        THEN ResolvedUpdate(q) ELSE FiringUpdate(q))
              /\ nextId' = nextId
         ELSE /\ nextId <= MaxAlerts
              /\ alerts' = Create(alerts,
                                  NewRow(q, nextId, IF q.status = "resolved"
                                                    THEN "resolved" ELSE "firing"), now)
              /\ nextId' = nextId + 1
    /\ reqs' = [reqs EXCEPT ![h] = Idle]
    /\ UNCHANGED <<now, schedVars, served, engVars, restVars>>

Serve == \E h \in Handlers :
            \/ \E a \in Payloads : WebhookLookup(h, a, 1)
            \/ WebhookWrite(h)

InitWebhook ==
    /\ now = 0
    /\ alerts = {}
    /\ nextId = 1
    /\ stateCache = <<>>
    /\ rule \in {r \in Rules : r.thresholds = NoThresholds}
    /\ absRun = <<>>
    /\ evalLog = NoEval
    /\ reqs = [h \in Handlers |-> Idle]
    /\ served = 0
    /\ alertQueue = <<>>
    /\ procs = [p \in Procs |-> IdleProc]
    /\ sendRecords = <<>>
    /\ jiraCreated = {}
    /\ jiraIssues = <<>>
    /\ suppressionWindows = <<>>
    /\ sourceSeen = <<>>
    /\ aggLastSent = <<>>
    /\ arrived = 0
    /\ entered = 0
    /\ NewScheduler
    /\ NewSender
    /\ silences = {}
    /\ mtArgs = NoArgs
    /\ mtResult = NoCall
    /\ mrArgs = NoMatchArgs
    /\ mrResult = NoMatch
    /\ NoExtras
    /\ engRules = <<>>

NextWebhook == Serve \/ Tick

SpecWebhook == InitWebhook /\ [][NextWebhook]_vars


----------------------------------------------------------------------------
(* Notification engine: ProcessAlertAsync, the worker pool and ProcessAlert *)

\* The rows of table channels: channel 1 is enabled.
ChannelEnabled(chID) == chID = 1

NoSuppression ==
    [set |-> FALSE, sourceLabels |-> <<>>, suppressedLabels |-> <<>>, duration |-> 0]

\* Rules as the engine reads them (enabled = true, priority ascending).
\* sendInterval, duration, aggregateWindow and suppression.duration are the
\* parsed durations in seconds, 0 for "" and "0"; excludeWindows holds the
\* parseHM values of start and end; suppression.set is Suppression # "".
EngineRule(id, sendInterval, recoveryNotify) ==
    [id |-> id, matchSeverity |-> "", datasourceIds |-> <<>>,
     matchLabels |-> [job |-> "node"], channelIds |-> <<1>>,
     recoveryNotify |-> recoveryNotify, sendInterval |-> sendInterval, duration |-> 0,
     excludeWindows |-> <<>>, suppression |-> NoSuppression,
     jiraEnabled |-> FALSE, jiraAfterN |-> 0, jiraConfig |-> "",
     aggregationEnabled |-> FALSE, aggregateBy |-> "", aggregateWindow |-> 0]

RuleSets ==
    {<<EngineRule(1, ReprocessSeconds, TRUE)>>,
     <<EngineRule(1, ReprocessSeconds, TRUE), EngineRule(2, 0, FALSE)>>}

\* A stored firing alert the engine is handed copies of.
EngineAlert(id, hostname) ==
    [id |-> id, sourceId |-> 1,
     externalId |-> Key(1, "disk", [job |-> "node", hostname |-> hostname]),
     title |-> "disk", severity |-> "warning", status |-> "firing", firingAt |-> 0,
     resolvedAt |-> NoTime, labels |-> [job |-> "node", hostname |-> hostname],
     annotations |-> <<>>, createdAt |-> 0]

\* The copy of a stored row that a caller hands to the engine, with the status
\* the row had at the hand-off.
JobOf(a, status) ==
    [id |-> a.id, status |-> status, severity |-> a.severity, sourceId |-> a.sourceId,
     externalId |-> a.externalId, labels |-> a.labels, annotations |-> a.annotations,
     firingAt |-> a.firingAt]

BothStatuses(a) == {JobOf(a, "firing"), JobOf(a, "resolved")}

\* The deployments the engine runs in: the enabled rules, the alert rows, and
\* the copies of them that are handed to the engine.
ThrottleScenarios ==
    [rules : RuleSets, rows : {{EngineAlert(1, "a")}}, feed : {BothStatuses(EngineAlert(1, "a"))},
     arrivals : {MaxArrivals}, silences : {{}}]

RecoveryScenario ==
    [rules |-> <<EngineRule(1, 0, TRUE), EngineRule(2, 0, TRUE)>>,
     rows |-> {EngineAlert(1, "a")}, feed |-> BothStatuses(EngineAlert(1, "a")),
     arrivals |-> MaxArrivals, silences |-> {}]

ExcludeScenario ==
    [rules |-> <<[EngineRule(1, 0, TRUE) EXCEPT
                    !.excludeWindows = <<[start |-> 0, end |-> 1]>>]>>,
     rows |-> {EngineAlert(1, "a")}, feed |-> BothStatuses(EngineAlert(1, "a")),
     arrivals |-> MaxArrivals, silences |-> {}]

TicketScenario ==
    [rules |-> <<[EngineRule(1, 0, TRUE) EXCEPT
                    !.duration = ReprocessSeconds, !.jiraEnabled = TRUE,
                    !.jiraAfterN = 1, !.jiraConfig = "cfg"]>>,
     rows |-> {EngineAlert(1, "a")}, feed |-> BothStatuses(EngineAlert(1, "a")),
     arrivals |-> MaxArrivals, silences |-> {}]

SuppressionScenario ==
    [rules |-> <<[EngineRule(1, 0, TRUE) EXCEPT
                    !.suppression = [set |-> TRUE, sourceLabels |-> [hostname |-> "a"],
                                     suppressedLabels |-> [hostname |-> "b"],
                                     duration |-> TickSeconds]]>>,
     rows |-> {EngineAlert(1, "a"), EngineAlert(2, "b")},
     feed |-> {JobOf(EngineAlert(1, "a"), "resolved"), JobOf(EngineAlert(2, "b"), "firing")},
     arrivals |-> MaxArrivals, silences |-> {}]

AggregationScenario ==
    [rules |-> <<[EngineRule(1, 0, FALSE) EXCEPT
                    !.aggregationEnabled = TRUE, !.aggregateBy = "hostname",
                    !.aggregateWindow = ReprocessSeconds]>>,
     rows |-> {EngineAlert(1, "a"), EngineAlert(2, "b")},
     feed |-> {JobOf(EngineAlert(1, "a"), "firing"), JobOf(EngineAlert(2, "b"), "firing")},
     arrivals |-> MaxArrivals, silences |-> {}]

\* A burst of hand-offs that fills the queue while every worker is busy; the
\* alert matches no rule.
BurstScenario ==
    [rules |-> <<[EngineRule(1, 0, FALSE) EXCEPT !.matchLabels = [job |-> "db"]]>>,
     rows |-> {EngineAlert(1, "a")}, feed |-> {JobOf(EngineAlert(1, "a"), "firing")},
     arrivals |-> MaxArrivals + Cardinality(Workers), silences |-> {}]

\* Alert 1 is silenced until the first tick; its rule opens a suppression
\* window, creates tickets and notifies recoveries.
SilenceScenario ==
    [rules |-> <<[EngineRule(1, 0, TRUE) EXCEPT
                    !.jiraEnabled = TRUE, !.jiraAfterN = 1, !.jiraConfig = "cfg",
                    !.suppression = [set |-> TRUE, sourceLabels |-> [hostname |-> "a"],
                                     suppressedLabels |-> [hostname |-> "b"],
                                     duration |-> TickSeconds]]>>,
     rows |-> {EngineAlert(1, "a")}, feed |-> BothStatuses(EngineAlert(1, "a")),
     arrivals |-> MaxArrivals,
     silences |-> {[alertId |-> 1, silenceUntil |-> TickSeconds]}]

\* The rule's first channel is disabled (or deleted), its second is enabled.
DisabledChannelScenario ==
    [rules |-> <<[EngineRule(1, 0, TRUE) EXCEPT !.channelIds = <<2, 1>>]>>,
     rows |-> {EngineAlert(1, "a")}, feed |-> BothStatuses(EngineAlert(1, "a")),
     arrivals |-> MaxArrivals, silences |-> {}]

\* Aggregation with a window of one tick: the alert has been firing for longer.
LongFiringScenario ==
    [rules |-> <<[EngineRule(1, 0, FALSE) EXCEPT
                    !.aggregationEnabled = TRUE, !.aggregateBy = "hostname",
                    !.aggregateWindow = TickSeconds]>>,
     rows |-> {EngineAlert(1, "a")}, feed |-> {JobOf(EngineAlert(1, "a"), "firing")},
     arrivals |-> MaxArrivals, silences |-> {}]

Scenarios ==
    ThrottleScenarios \cup {RecoveryScenario, ExcludeScenario, TicketScenario,
                            SuppressionScenario, AggregationScenario, BurstScenario,
                            SilenceScenario, DisabledChannelScenario, LongFiringScenario}

\* The deployment at hand.
Deployment == CHOOSE sc \in Scenarios : sc.rules = engRules

\* The alert copies handed to the engine in the deployment at hand.
Jobs == Deployment.feed

matchRule(r, a, labels) ==
    /\ r.matchSeverity = "" \/ r.matchSeverity = a.severity
    /\ r.datasourceIds = <<>> \/ \E k \in DOMAIN r.datasourceIds : r.datasourceIds[k] = a.sourceId
    /\ \A k \in DOMAIN r.matchLabels : Label(labels, k) = r.matchLabels[k]

AlwaysSatisfied(r, a, t) == TRUE

durationSatisfied(r, a, t) == r.duration = 0 \/ t - a.firingAt >= r.duration

MinutesPerDay == 24 * 60

\* now.Hour()*60 + now.Minute(), the clock starting at local midnight.
LocalMinute(t) == (t \div 60) % MinutesPerDay

\* Windows that do not wrap around midnight.
NoWrap(r, t) ==
    \E k \in DOMAIN r.excludeWindows :
        /\ r.excludeWindows[k].start >= 0 /\ r.excludeWindows[k].end >= 0
        /\ LocalMinute(t) >= r.excludeWindows[k].start
        /\ LocalMinute(t) < r.excludeWindows[k].end

inExcludeWindow(r, t) ==
    \E k \in DOMAIN r.excludeWindows :
        LET startMin == r.excludeWindows[k].start
            endMin == r.excludeWindows[k].end
            hm == LocalMinute(t)
        IN  /\ startMin >= 0 /\ endMin >= 0
            /\ IF startMin <= endMin THEN hm >= startMin /\ hm < endMin
                                     ELSE hm >= startMin \/ hm < endMin

labelsMatch(labels, want) ==
    /\ \A k \in DOMAIN want : Label(labels, k) = want[k]
    /\ DOMAIN want # {}

NeverArmed(windows, r, labels, t) == windows

\* suppressionWindows after updateSuppressionWindow(r, labels) at time t.
updateSuppressionWindow(windows, r, labels, t) ==
    IF /\ r.suppression.set
       /\ r.suppression.duration # 0
       /\ labelsMatch(labels, r.suppression.sourceLabels)
    THEN (r.id :> t + r.suppression.duration) @@ windows
    ELSE windows

suppressed(windows, r, labels, t) ==
    /\ r.suppression.set
    /\ DOMAIN r.suppression.suppressedLabels # {}
    /\ ~(t > (IF r.id \in DOMAIN windows THEN windows[r.id] ELSE NoTime))
    /\ labelsMatch(labels, r.suppression.suppressedLabels)

\* Per-threshold channels from the annotations, else the rule's channels.
ChannelIDs(r, a) ==
    IF Label(a.annotations, "threshold_channel_ids") # ""
          /\ a.annotations["threshold_channel_ids"] # <<>>
    THEN a.annotations["threshold_channel_ids"] ELSE r.channelIds

\* The count query of both checks: a successful record of the pair after t - d.
SuccessWithin(records, alertID, chID, t, d) ==
    \E k \in DOMAIN records :
        /\ records[k].alertId = alertID
        /\ records[k].channelId = chID
        /\ records[k].success
        /\ records[k].createdAt > t - d

sendRateLimited(records, r, alertID, chID, t) ==
    r.sendInterval # 0 /\ SuccessWithin(records, alertID, chID, t, r.sendInterval)

recoveryAlreadySent(records, alertID, chID, t) ==
    SuccessWithin(records, alertID, chID, t, RecoveryWindowSeconds)

\* A row of alert_send_records.  The columns are alertId, channelId, success
\* and createdAt; recovery (the isRecovery argument of sender.Send) and aggKey
\* (the aggregation state key of an aggregated dispatch, else <<>>) are history.
SendRecord(alertID, chID, ok, t, recovery, aggKey) ==
    [alertId |-> alertID, channelId |-> chID, success |-> ok, createdAt |-> t,
     recovery |-> recovery, aggKey |-> aggKey]

\* Ticket gating up to the lookup of the ticket record.
JiraWanted(r, a, rows, created) ==
    /\ r.jiraEnabled /\ r.jiraAfterN > 0 /\ r.jiraConfig # ""
    /\ Cardinality({x \in rows : x.sourceId = a.sourceId /\ x.externalId = a.externalId})
          >= r.jiraAfterN
    /\ ~\E c \in created :
          c.ruleId = r.id /\ c.sourceId = a.sourceId /\ c.externalId = a.externalId

CreateAnyRecord(created, c) == created \cup {c}

\* db.Create of a ticket record: unique index idx_jira_rule_source_ext.
CreateJiraRecord(created, c) ==
    IF \E x \in created :
          x.ruleId = c.ruleId /\ x.sourceId = c.sourceId /\ x.externalId = c.externalId
    THEN created ELSE created \cup {c}

aggregationDimensionKeys(aggregateBy) ==
    IF aggregateBy = "hostname" THEN {"hostname", "host", "instance"}
    ELSE IF aggregateBy = "ip" THEN {"ip", "instance"}
    ELSE IF aggregateBy = "port" THEN {"port", "instance"}
    ELSE {aggregateBy}

\* The labels minus the aggregation dimension (serialised in key order by the source).
typeFingerprint(labels, aggregateBy) ==
    [k \in (DOMAIN labels) \ aggregationDimensionKeys(aggregateBy) |-> labels[k]]

aggStateKey(r, labels) == <<r.id, typeFingerprint(labels, r.aggregateBy)>>

\* sendAggregated up to the read of aggLastSent: TRUE when the dispatch goes on.
AggregateDue(r, a, rows, lastSent, t) ==
    LET d == r.aggregateWindow
        candidates == {x \in rows : x.firingAt >= t - d /\ x.status = "firing"}
        key == aggStateKey(r, a.labels)
    IN  /\ candidates # {}
        /\ ~(key \in DOMAIN lastSent /\ t - lastSent[key] < d)

NotSilenced(rows, alertID, t) == FALSE

IsSilenced(rows, alertID, t) ==
    \E x \in rows : x.alertId = alertID /\ x.silenceUntil > t

\* ProcessAlert is entered: it returns at once for a silenced alert.
EnterProcessAlert(job) ==
    IF IsSilenced(silences, job.id, now) THEN IdleProc
    ELSE [pc |-> "rule", job |-> job, ri |-> 1, ci |-> 1, agg |-> FALSE]

NextRule(q) == [q EXCEPT !.pc = "rule", !.ri = @ + 1, !.ci = 1, !.agg = FALSE]

\* After ticket gating: the aggregated or the plain loop over the channels.
Dispatch(q, r, rows, lastSent, t) ==
    IF r.aggregationEnabled /\ r.aggregateBy # "" /\ r.aggregateWindow # 0
    THEN IF AggregateDue(r, q.job, rows, lastSent, t)
         THEN [q EXCEPT !.pc = "channel", !.ci = 1, !.agg = TRUE]
         ELSE NextRule(q)
    ELSE [q EXCEPT !.pc = "channel", !.ci = 1, !.agg = FALSE]

\* One pass of the loop over the rules, from updateSuppressionWindow to the
\* first store write or sender call.
AfterGates(q, r, windows, rows, created, lastSent, t) ==
    IF ~matchRule(r, q.job, q.job.labels) \/ ChannelIDs(r, q.job) = <<>>
    THEN NextRule(q)
    ELSE IF q.job.status = "resolved" /\ r.recoveryNotify
    THEN [q EXCEPT !.pc = "recovery", !.ci = 1]
    ELSE IF \/ q.job.status # "firing"
            \/ ~durationSatisfied(r, q.job, t)
            \/ inExcludeWindow(r, t)
            \/ suppressed(windows, r, q.job.labels, t)
    THEN NextRule(q)
    ELSE IF JiraWanted(r, q.job, rows, created)
    THEN [q EXCEPT !.pc = "jira"]
    ELSE Dispatch(q, r, rows, lastSent, t)

\* The lowest free goroutine slot outside the pool.
FreeDetached ==
    {DetachedOrder[i] : i \in {j \in DOMAIN DetachedOrder :
        /\ procs[DetachedOrder[j]].pc = "idle"
        /\ \A k \in 1..(j - 1) : procs[DetachedOrder[k]].pc # "idle"}}

\* A hand-off that gives up on a full queue.
DropWhenFull(job) ==
    /\ arrived < Deployment.arrivals
    /\ arrived' = arrived + 1
    /\ alertQueue' = IF Len(alertQueue) < QueueSlots THEN Append(alertQueue, job) ELSE alertQueue
    /\ UNCHANGED <<now, otherVars, engStore, engMemory, engRules, procs, entered>>

\* ProcessAlertAsync: the copy goes into the queue, or to a goroutine of its own
\* when the queue is full.
ProcessAlertAsync(job) ==
    /\ arrived < Deployment.arrivals
    /\ arrived' = arrived + 1
    /\ IF Len(alertQueue) < QueueSlots
       THEN /\ alertQueue' = Append(alertQueue, job)
            /\ UNCHANGED <<procs, entered>>
       ELSE /\ \E p \in FreeDetached : procs' = [procs EXCEPT ![p] = EnterProcessAlert(job)]
            /\ entered' = entered + 1
            /\ alertQueue' = alertQueue
    /\ UNCHANGED <<now, otherVars, engStore, engMemory, engRules>>

\* A webhook handler calls ProcessAlert in its own request goroutine.
ProcessAlertSync(job) ==
    /\ arrived < Deployment.arrivals
    /\ arrived' = arrived + 1
    /\ \E p \in FreeDetached : procs' = [procs EXCEPT ![p] = EnterProcessAlert(job)]
    /\ entered' = entered + 1
    /\ UNCHANGED <<now, otherVars, engStore, engMemory, engRules, alertQueue>>

\* A worker receives the next job and enters ProcessAlert.
WorkerReceive(p) ==
    /\ procs[p].pc = "idle"
    /\ alertQueue # <<>>
    /\ procs' = [procs EXCEPT ![p] = EnterProcessAlert(Head(alertQueue))]
    /\ alertQueue' = Tail(alertQueue)
    /\ entered' = entered + 1
    /\ UNCHANGED <<now, otherVars, engStore, engMemory, engRules, arrived>>

\* ProcessAlert, head of the loop over the rules: suppression window, match,
\* channels, recovery branch, status, duration, exclude-window and suppression
\* gates, ticket gating.
RuleStep(p) ==
    /\ procs[p].pc = "rule"
    /\ LET q == procs[p] IN
         IF q.ri > Len(engRules)
         THEN /\ procs' = [procs EXCEPT ![p] = IdleProc]
              /\ UNCHANGED <<suppressionWindows, sourceSeen>>
         ELSE LET r == engRules[q.ri]
                  windows == updateSuppressionWindow(suppressionWindows, r, q.job.labels, now)
              IN  /\ suppressionWindows' = windows
                  /\ sourceSeen' = IF r.suppression.set
                                      /\ labelsMatch(q.job.labels, r.suppression.sourceLabels)
                                   THEN (r.id :> now) @@ sourceSeen ELSE sourceSeen
                  /\ procs' = [procs EXCEPT ![p] =
                                  AfterGates(q, r, windows, alerts, jiraCreated, aggLastSent, now)]
    /\ UNCHANGED <<now, otherVars, engStore, aggLastSent, engRules, alertQueue, arrived, entered>>

\* tryCreateJiraTicket from jira.CreateIssue on: the issue and the ticket record.
JiraStep(p) ==
    /\ procs[p].pc = "jira"
    /\ LET q == procs[p]
           r == engRules[q.ri]
           ticket == [ruleId |-> r.id, sourceId |-> q.job.sourceId,
                      externalId |-> q.job.externalId]
       IN  /\ \E ok \in BOOLEAN :
                IF ok
                THEN /\ jiraIssues' = Append(jiraIssues, ticket)
                     /\ jiraCreated' = CreateJiraRecord(jiraCreated,
                                          ticket @@ [jiraKey |-> Len(jiraIssues) + 1])
                ELSE UNCHANGED <<jiraIssues, jiraCreated>>
           /\ procs' = [procs EXCEPT ![p] = Dispatch(q, r, alerts, aggLastSent, now)]
    /\ UNCHANGED <<now, otherVars, sendRecords, engMemory, engRules, alertQueue, arrived, entered>>

\* Firing dispatch, plain or aggregated, one channel: the rate-limit query and
\* the channel lookup; after the last channel sendAggregated stores aggLastSent.
ChannelStep(p) ==
    /\ procs[p].pc = "channel"
    /\ LET q == procs[p]
           r == engRules[q.ri]
           chs == ChannelIDs(r, q.job)
           key == IF q.agg THEN aggStateKey(r, q.job.labels) ELSE <<>>
       IN  IF q.ci > Len(chs)
           THEN /\ procs' = [procs EXCEPT ![p] = NextRule(q)]
                /\ sendRecords' = sendRecords
                /\ aggLastSent' = IF q.agg THEN (key :> now) @@ aggLastSent ELSE aggLastSent
           ELSE IF sendRateLimited(sendRecords, r, q.job.id, chs[q.ci], now)
           THEN /\ procs' = [procs EXCEPT ![p] = [q EXCEPT !.ci = @ + 1]]
                /\ UNCHANGED <<sendRecords, aggLastSent>>
           ELSE IF ~ChannelEnabled(chs[q.ci])
           THEN /\ procs' = [procs EXCEPT ![p] = [q EXCEPT !.ci = @ + 1]]
                /\ sendRecords' = Append(sendRecords,
                                     SendRecord(q.job.id, chs[q.ci], FALSE, now, FALSE, key))
                /\ aggLastSent' = aggLastSent
           ELSE /\ procs' = [procs EXCEPT ![p] = [q EXCEPT !.pc = "send"]]
                /\ UNCHANGED <<sendRecords, aggLastSent>>
    /\ UNCHANGED <<now, otherVars, jiraCreated, jiraIssues, suppressionWindows, sourceSeen,
                   engRules, alertQueue, arrived, entered>>

\* Recovery dispatch, one channel: the duplicate query and the channel lookup.
RecoveryStep(p) ==
    /\ procs[p].pc = "recovery"
    /\ LET q == procs[p]
           chs == ChannelIDs(engRules[q.ri], q.job)
       IN  IF q.ci > Len(chs)
           THEN procs' = [procs EXCEPT ![p] = NextRule(q)]
           ELSE IF recoveryAlreadySent(sendRecords, q.job.id, chs[q.ci], now)
                   \/ ~ChannelEnabled(chs[q.ci])
           THEN procs' = [procs EXCEPT ![p] = [q EXCEPT !.ci = @ + 1]]
           ELSE procs' = [procs EXCEPT ![p] = [q EXCEPT !.pc = "rsend"]]
    /\ UNCHANGED <<now, otherVars, engStore, engMemory, engRules, alertQueue, arrived, entered>>

\* sender.Send returns and the send record of the outcome is created.
SendStep(p) ==
    /\ procs[p].pc \in {"send", "rsend"}
    /\ LET q == procs[p]
           r == engRules[q.ri]
           chs == ChannelIDs(r, q.job)
           key == IF q.agg THEN aggStateKey(r, q.job.labels) ELSE <<>>
       IN  \E ok \in BOOLEAN :
             /\ sendRecords' = Append(sendRecords,
                                  SendRecord(q.job.id, chs[q.ci], ok, now, q.pc = "rsend", key))
             /\ procs' = [procs EXCEPT ![p] =
                             [q EXCEPT !.pc = IF q.pc = "send" THEN "channel" ELSE "recovery",
                                       !.ci = @ + 1]]
    /\ UNCHANGED <<now, otherVars, jiraCreated, jiraIssues, engMemory, engRules, alertQueue, arrived, entered>>

ProcessAlert ==
    \E p \in Procs :
        RuleStep(p) \/ JiraStep(p) \/ ChannelStep(p) \/ RecoveryStep(p) \/ SendStep(p)

Enqueue == \E job \in Jobs : ProcessAlertAsync(job)

Inline == \E job \in Jobs : ProcessAlertSync(job)

Receive == \E p \in Workers : WorkerReceive(p)

EngineStarts(scenarios) ==
    /\ now = 0
    /\ nextId = 1
    /\ stateCache = <<>>
    /\ rule \in {r \in Rules : r.thresholds = NoThresholds}
    /\ absRun = <<>>
    /\ evalLog = NoEval
    /\ reqs = [h \in Handlers |-> Idle]
    /\ served = 0
    /\ alertQueue = <<>>
    /\ procs = [p \in Procs |-> IdleProc]
    /\ sendRecords = <<>>
    /\ jiraCreated = {}
    /\ jiraIssues = <<>>
    /\ suppressionWindows = <<>>
    /\ sourceSeen = <<>>
    /\ aggLastSent = <<>>
    /\ arrived = 0
    /\ entered = 0
    /\ NewScheduler
    /\ NewSender
    /\ mtArgs = NoArgs
    /\ mtResult = NoCall
    /\ mrArgs = NoMatchArgs
    /\ mrResult = NoMatch
    /\ NoExtras
    /\ \E sc \in scenarios :
         engRules = sc.rules /\ alerts = sc.rows /\ silences = sc.silences

InitEngine == EngineStarts(Scenarios \ {BurstScenario, SilenceScenario})

NextEngine == Enqueue \/ Inline \/ Receive \/ ProcessAlert \/ Tick

SpecEngine == InitEngine /\ [][NextEngine]_vars

\* The engine in the deployments whose rules gate the firing dispatch.
InitGates == EngineStarts({TicketScenario, SuppressionScenario})

SpecGates == InitGates /\ [][NextEngine]_vars

\* The engine under a burst of hand-offs.
InitQueue == EngineStarts({BurstScenario, TicketScenario})

SpecQueue == InitQueue /\ [][NextEngine]_vars

\* The engine with a manual silence on the alert.
InitSilence == EngineStarts({SilenceScenario})

SpecSilence == InitSilence /\ [][NextEngine]_vars

----------------------------------------------------------------------------
(* The engine fed by the scheduler: firing first, resolved afterwards *)

\* queryPrometheus hands the firing copy in one evaluation and the resolved
\* copy in a later one.
HandOffInOrder ==
    \E job \in Jobs :
        /\ job.status = IF arrived = 0 THEN "firing" ELSE "resolved"
        /\ ProcessAlertAsync(job)

InitOrder == EngineStarts({TicketScenario})

NextOrder == HandOffInOrder \/ Receive \/ ProcessAlert \/ Tick

SpecOrder == InitOrder /\ [][NextOrder]_vars

----------------------------------------------------------------------------
(* RunRetentionCleanup beside the engine *)

\* The retention period (retention_days), one tick of the model's clock.
Retention == TickSeconds

\* Pluck the ids of the alerts created before the cutoff; return if there are none.
RetentionList ==
    /\ sweep.pc = "idle"
    /\ {a \in alerts : a.createdAt < now - Retention} # {}
    /\ sweep' = [pc |-> "records", cutoff |-> now - Retention,
                 ids |-> {a.id : a \in {x \in alerts : x.createdAt < now - Retention}}]
    /\ UNCHANGED <<now, alerts, nextId, schedVars, whVars, engVars, pureVars, taskVars,
                   silences, senderVars, callVars, datasource, lockVars>>

\* Delete the send records whose alert_id is in the list.
RetentionDeleteRecords ==
    /\ sweep.pc = "records"
    /\ sendRecords' = SelectSeq(sendRecords, LAMBDA rec : rec.alertId \notin sweep.ids)
    /\ sweep' = [sweep EXCEPT !.pc = "alerts"]
    /\ UNCHANGED <<now, alerts, nextId, schedVars, whVars, pureVars, taskVars, silences,
                   senderVars, callVars, datasource, lockVars, alertQueue, procs, jiraCreated,
                   jiraIssues, engMemory, arrived, entered, engRules>>

\* Delete the alerts created before the cutoff.
RetentionDeleteAlerts ==
    /\ sweep.pc = "alerts"
    /\ alerts' = {a \in alerts : ~(a.createdAt < sweep.cutoff)}
    /\ sweep' = NoSweep
    /\ UNCHANGED <<now, nextId, schedVars, whVars, engVars, pureVars, taskVars,
                   silences, senderVars, callVars, datasource, lockVars>>

RunRetentionCleanup == RetentionList \/ RetentionDeleteRecords \/ RetentionDeleteAlerts

InitRetention == EngineStarts({TicketScenario})

NextRetention == NextEngine \/ RunRetentionCleanup

SpecRetention == InitRetention /\ [][NextRetention]_vars

----------------------------------------------------------------------------
(* The scheduler's locks: stateMu and queryState.mu *)

\* RLock returns when no writer holds the lock and none has announced itself.
CanRLock(m) == m.writer = "" /\ m.pending = ""

\* Lock, first half: the writer announces itself, one writer at a time.
CanAnnounce(m) == m.writer = "" /\ m.pending = ""

\* Lock, second half: the announced writer enters when the readers have left.
CanEnter(m, p) == m.pending = p /\ m.readers = {}

LockUnchanged ==
    UNCHANGED <<now, alerts, nextId, rule, absRun, evalLog, whVars, engVars, pureVars,
                taskVars, silences, senderVars, callVars, datasource, sweep>>

\* queryPrometheus has the query's result and calls stateMu.Lock().
StartEvaluation(p) ==
    /\ lockers[p].pc = "idle"
    /\ lockers' = [lockers EXCEPT ![p].pc = "lockCache"]
    /\ UNCHANGED <<stateCache, stateMu, stateLocks>>
    /\ LockUnchanged

LockStateMu(p) ==
    /\ lockers[p].pc = "lockCache"
    /\ \/ /\ CanAnnounce(stateMu)
          /\ stateMu' = [stateMu EXCEPT !.pending = p]
          /\ lockers' = lockers
       \/ /\ CanEnter(stateMu, p)
          /\ stateMu' = [stateMu EXCEPT !.pending = "", !.writer = p]
          /\ lockers' = [lockers EXCEPT ![p].pc = "cache"]
    /\ UNCHANGED <<stateCache, stateLocks>>
    /\ LockUnchanged

\* The entry is created and the evaluation goes on with stateMu still locked.
KeepStateMu(p) ==
    /\ lockers[p].pc = "cache"
    /\ stateCache' = IF Evaluators[p] \in DOMAIN stateCache THEN stateCache
                     ELSE (Evaluators[p] :> <<>>) @@ stateCache
    /\ lockers' = [lockers EXCEPT ![p].pc = "lockState"]
    /\ UNCHANGED <<stateMu, stateLocks>>
    /\ LockUnchanged

\* Get or create the rule's entry, then stateMu.Unlock().
UnlockStateMu(p) ==
    /\ lockers[p].pc = "cache"
    /\ stateCache' = IF Evaluators[p] \in DOMAIN stateCache THEN stateCache
                     ELSE (Evaluators[p] :> <<>>) @@ stateCache
    /\ stateMu' = [stateMu EXCEPT !.writer = ""]
    /\ lockers' = [lockers EXCEPT ![p].pc = "lockState"]
    /\ UNCHANGED stateLocks
    /\ LockUnchanged

\* state.mu.Lock()
LockState(p) ==
    /\ lockers[p].pc = "lockState"
    /\ LET r == Evaluators[p] IN
       \/ /\ CanAnnounce(stateLocks[r])
          /\ stateLocks' = [stateLocks EXCEPT ![r].pending = p]
          /\ lockers' = lockers
       \/ /\ CanEnter(stateLocks[r], p)
          /\ stateLocks' = [stateLocks EXCEPT ![r].pending = "", ![r].writer = p]
          /\ lockers' = [lockers EXCEPT ![p].pc = "eval"]
    /\ UNCHANGED <<stateCache, stateMu>>
    /\ LockUnchanged

\* The evaluation ends: the deferred state.mu.Unlock().
UnlockState(p) ==
    /\ lockers[p].pc = "eval"
    /\ stateLocks' = [stateLocks EXCEPT ![Evaluators[p]].writer = ""]
    /\ lockers' = [lockers EXCEPT ![p].pc = "idle"]
    /\ UNCHANGED <<stateCache, stateMu>>
    /\ LockUnchanged

\* FiringCountByRule is called.
StartCount(p) ==
    /\ lockers[p].pc = "idle"
    /\ lockers' = [lockers EXCEPT ![p].pc = "rlockCache"]
    /\ UNCHANGED <<stateCache, stateMu, stateLocks>>
    /\ LockUnchanged

\* stateMu.RLock(), and the range over stateCache begins.
RLockStateMu(p) ==
    /\ lockers[p].pc = "rlockCache"
    /\ CanRLock(stateMu)
    /\ stateMu' = [stateMu EXCEPT !.readers = @ \cup {p}]
    /\ lockers' = [lockers EXCEPT ![p] = [pc |-> "range", todo |-> DOMAIN stateCache, cur |-> 0]]
    /\ UNCHANGED <<stateCache, stateLocks>>
    /\ LockUnchanged

\* The next entry of the range, or the deferred stateMu.RUnlock() at its end.
RangeStateCache(p) ==
    /\ lockers[p].pc = "range"
    /\ IF lockers[p].todo = {}
       THEN /\ stateMu' = [stateMu EXCEPT !.readers = @ \ {p}]
            /\ lockers' = [lockers EXCEPT ![p] = IdleLocker]
       ELSE /\ \E r \in lockers[p].todo :
                 lockers' = [lockers EXCEPT ![p] = [pc |-> "rlockState", todo |-> @.todo \ {r},
                                                    cur |-> r]]
            /\ stateMu' = stateMu
    /\ UNCHANGED <<stateCache, stateLocks>>
    /\ LockUnchanged

\* state.mu.RLock()
RLockState(p) ==
    /\ lockers[p].pc = "rlockState"
    /\ CanRLock(stateLocks[lockers[p].cur])
    /\ stateLocks' = [stateLocks EXCEPT ![lockers[p].cur].readers = @ \cup {p}]
    /\ lockers' = [lockers EXCEPT ![p].pc = "count"]
    /\ UNCHANGED <<stateCache, stateMu>>
    /\ LockUnchanged

\* The entry is counted: state.mu.RUnlock().
RUnlockState(p) ==
    /\ lockers[p].pc = "count"
    /\ stateLocks' = [stateLocks EXCEPT ![lockers[p].cur].readers = @ \ {p}]
    /\ lockers' = [lockers EXCEPT ![p].pc = "range", ![p].cur = 0]
    /\ UNCHANGED <<stateCache, stateMu>>
    /\ LockUnchanged

\* What a goroutine does between its call and its return.
LockerStep(p) ==
    \/ p \in DOMAIN Evaluators
         /\ (LockStateMu(p) \/ UnlockStateMu(p) \/ LockState(p) \/ UnlockState(p))
    \/ p \in Readers
         /\ (RLockStateMu(p) \/ RangeStateCache(p) \/ RLockState(p) \/ RUnlockState(p))

Evaluations == \E p \in DOMAIN Evaluators : StartEvaluation(p)

FiringCountByRule == \E p \in Readers : StartCount(p)

LockerSteps == \E p \in Lockers : LockerStep(p)

InitLocks ==
    /\ now = 0
    /\ alerts = {}
    /\ nextId = 1
    /\ stateCache = <<>>
    /\ rule \in {r \in Rules : r.thresholds = NoThresholds}
    /\ absRun = <<>>
    /\ evalLog = NoEval
    /\ reqs = [h \in Handlers |-> Idle]
    /\ served = 0
    /\ alertQueue = <<>>
    /\ procs = [p \in Procs |-> IdleProc]
    /\ sendRecords = <<>>
    /\ jiraCreated = {}
    /\ jiraIssues = <<>>
    /\ suppressionWindows = <<>>
    /\ sourceSeen = <<>>
    /\ aggLastSent = <<>>
    /\ arrived = 0
    /\ entered = 0
    /\ NewScheduler
    /\ NewSender
    /\ silences = {}
    /\ mtArgs = NoArgs
    /\ mtResult = NoCall
    /\ mrArgs = NoMatchArgs
    /\ mrResult = NoMatch
    /\ NoExtras
    /\ engRules = <<>>

NextLocks == Evaluations \/ FiringCountByRule \/ LockerSteps

SpecLocks == InitLocks /\ [][NextLocks]_vars

\* sync.RWMutex lets no waiter starve and every evaluation terminates.
FairLocks == SpecLocks /\ \A p \in Lockers : SF_vars(LockerStep(p))

----------------------------------------------------------------------------
(* KeyForSeriesWithRule as a function of its arguments *)

\* Label sets with instance and job absent, empty or set.
KeyLabels == UNION {[D -> {"", "x"}] : D \in SUBSET {"instance", "job"}}

KeyArgs ==
    [sourceID : {1}, ruleID : 1..3, title : {"cpu: x", "disk: x"}, labels : KeyLabels,
     resultIndex : 0..MaxIndex]

CallKeyForSeriesWithRule ==
    /\ ~callResult.called
    /\ callResult' = [called |-> TRUE,
                      value |-> KeyForSeriesWithRule(callArgs.sourceID, callArgs.ruleID,
                                                     callArgs.title, callArgs.labels,
                                                     callArgs.resultIndex)]
    /\ UNCHANGED <<now, alerts, nextId, schedVars, whVars, engVars, pureVars, taskVars,
                   silences, senderVars, callArgs, datasource, sweep, lockVars>>

InitKey ==
    /\ now = 0
    /\ alerts = {}
    /\ nextId = 1
    /\ stateCache = <<>>
    /\ rule \in {r \in Rules : r.thresholds = NoThresholds}
    /\ absRun = <<>>
    /\ evalLog = NoEval
    /\ reqs = [h \in Handlers |-> Idle]
    /\ served = 0
    /\ alertQueue = <<>>
    /\ procs = [p \in Procs |-> IdleProc]
    /\ sendRecords = <<>>
    /\ jiraCreated = {}
    /\ jiraIssues = <<>>
    /\ suppressionWindows = <<>>
    /\ sourceSeen = <<>>
    /\ aggLastSent = <<>>
    /\ arrived = 0
    /\ entered = 0
    /\ NewScheduler
    /\ NewSender
    /\ silences = {}
    /\ mtArgs = NoArgs
    /\ mtResult = NoCall
    /\ mrArgs = NoMatchArgs
    /\ mrResult = NoMatch
    /\ callArgs \in KeyArgs
    /\ callResult = NotCalled
    /\ datasource = Prometheus
    /\ sweep = NoSweep
    /\ NoLockers
    /\ engRules = <<>>

NextKey == CallKeyForSeriesWithRule

SpecKey == InitKey /\ [][NextKey]_vars

----------------------------------------------------------------------------
(* Rule scheduler: Start, loadRules, runTask and Stop *)

TaskRuleIds == {1}

\* The rows loadRules finds: enabled = true and query_expression # "".
EnabledRules == IF ruleRow = "enabled" THEN TaskRuleIds ELSE {}

Live(runs) == {h \in DOMAIN runs : runs[h].pc # "done"}

\* close(task.stopChan) for the tasks of the rule ids in ids.
CloseTasks(runs, table, ids) ==
    [h \in DOMAIN runs |->
        IF \E id \in ids : id \in DOMAIN table /\ table[id] = h
        THEN [runs[h] EXCEPT !.stopChan = TRUE] ELSE runs[h]]

\* The handles the new tasks get, in the order of the rule ids.
NewHandle(runs, table, id, found) ==
    Len(runs) + Cardinality({x \in found : x \notin DOMAIN table /\ x <= id})

\* loadRules under s.mu, for the rows found: a task is created and started for
\* each rule without one, and the tasks of the other rule ids are stopped and
\* deleted.
LoadRules(found) ==
    LET fresh == {id \in found : id \notin DOMAIN tasks}
        gone == {id \in DOMAIN tasks : id \notin found}
        started == [h \in 1..(Len(taskRuns) + Cardinality(fresh)) |->
                       IF h <= Len(taskRuns) THEN taskRuns[h]
                       ELSE [ruleID |-> CHOOSE id \in fresh :
                                           NewHandle(taskRuns, tasks, id, found) = h,
                             pc |-> "first", stopChan |-> FALSE]]
    IN  /\ Len(taskRuns) + Cardinality(fresh) <= MaxTasks
        /\ taskRuns' = CloseTasks(started, tasks, gone)
        /\ tasks' = [id \in ((DOMAIN tasks) \ gone) \cup fresh |->
                        IF id \in fresh THEN NewHandle(taskRuns, tasks, id, found)
                        ELSE tasks[id]]

\* Start, first half: the query of loadRules.
StartQuery ==
    /\ main.pc = "new"
    /\ main' = [pc |-> "loading", rules |-> EnabledRules]
    /\ UNCHANGED <<now, alerts, nextId, schedVars, whVars, engVars, pureVars, extraVars, silences, senderVars,
                   ruleRow, tasks, taskRuns, stopChan, reloader>>

\* Start, second half: the tasks are launched and the reload goroutine starts.
StartLoad ==
    /\ main.pc = "loading"
    /\ LoadRules(main.rules)
    /\ main' = [pc |-> "started", rules |-> {}]
    /\ reloader' = [pc |-> "wait", rules |-> {}]
    /\ UNCHANGED <<now, alerts, nextId, schedVars, whVars, engVars, pureVars, extraVars, silences, senderVars, ruleRow, stopChan>>

\* The reload ticker fires: the query of loadRules.
ReloadQuery ==
    /\ reloader.pc = "wait"
    /\ ~stopChan
    /\ reloader' = [pc |-> "loading", rules |-> EnabledRules]
    /\ UNCHANGED <<now, alerts, nextId, schedVars, whVars, engVars, pureVars, extraVars, silences, senderVars,
                   ruleRow, tasks, taskRuns, stopChan, main>>

ReloadLoad ==
    /\ reloader.pc = "loading"
    /\ LoadRules(reloader.rules)
    /\ reloader' = [pc |-> "wait", rules |-> {}]
    /\ UNCHANGED <<now, alerts, nextId, schedVars, whVars, engVars, pureVars, extraVars, silences, senderVars,
                   ruleRow, stopChan, main>>

\* The reload goroutine receives from the closed s.stopChan and returns.
ReloadExit ==
    /\ reloader.pc = "wait"
    /\ stopChan
    /\ reloader' = [pc |-> "done", rules |-> {}]
    /\ UNCHANGED <<now, alerts, nextId, schedVars, whVars, engVars, pureVars, extraVars, silences, senderVars,
                   ruleRow, tasks, taskRuns, stopChan, main>>

\* Stop, first half: close(s.stopChan).
StopClose ==
    /\ main.pc = "started"
    /\ stopChan' = TRUE
    /\ main' = [main EXCEPT !.pc = "stopping"]
    /\ UNCHANGED <<now, alerts, nextId, schedVars, whVars, engVars, pureVars, extraVars, silences, senderVars,
                   ruleRow, tasks, taskRuns, reloader>>

\* Stop, second half, under s.mu: every task of the table is signalled and the
\* table is replaced by an empty one; Stop returns.
StopClear ==
    /\ main.pc = "stopping"
    /\ taskRuns' = CloseTasks(taskRuns, tasks, DOMAIN tasks)
    /\ tasks' = <<>>
    /\ main' = [main EXCEPT !.pc = "stopped"]
    /\ UNCHANGED <<now, alerts, nextId, schedVars, whVars, engVars, pureVars, extraVars, silences, senderVars,
                   ruleRow, stopChan, reloader>>

\* runTask: the evaluation at the start of the goroutine, and the evaluation
\* after a timer tick, begin.
TaskEvaluate(h) ==
    /\ taskRuns[h].pc \in {"first", "checked"}
    /\ taskRuns' = [taskRuns EXCEPT ![h].pc = "evaluating"]
    /\ UNCHANGED <<now, alerts, nextId, schedVars, whVars, engVars, pureVars, extraVars, silences, senderVars,
                   ruleRow, tasks, stopChan, reloader, main>>

\* evaluateRule and updateLastRunAt return; the goroutine waits in the select.
TaskEvaluated(h) ==
    /\ taskRuns[h].pc = "evaluating"
    /\ taskRuns' = [taskRuns EXCEPT ![h].pc = "select"]
    /\ UNCHANGED <<now, alerts, nextId, schedVars, whVars, engVars, pureVars, extraVars, silences, senderVars,
                   ruleRow, tasks, stopChan, reloader, main>>

\* The timer fires: the rule is read again, and the goroutine returns when the
\* row is gone, disabled or without a query.
TaskTimer(h) ==
    /\ taskRuns[h].pc = "select"
    /\ ~taskRuns[h].stopChan
    /\ taskRuns' = [taskRuns EXCEPT ![h].pc =
                        IF taskRuns[h].ruleID \in EnabledRules THEN "checked" ELSE "done"]
    /\ UNCHANGED <<now, alerts, nextId, schedVars, whVars, engVars, pureVars, extraVars, silences, senderVars,
                   ruleRow, tasks, stopChan, reloader, main>>

\* The goroutine receives from its closed stopChan and returns.
TaskStopped(h) ==
    /\ taskRuns[h].pc = "select"
    /\ taskRuns[h].stopChan
    /\ taskRuns' = [taskRuns EXCEPT ![h].pc = "done"]
    /\ UNCHANGED <<now, alerts, nextId, schedVars, whVars, engVars, pureVars, extraVars, silences, senderVars,
                   ruleRow, tasks, stopChan, reloader, main>>

\* The rule API: the rule is enabled, disabled (or its query cleared), deleted.
EditRule(row) ==
    /\ ruleRow # "deleted"
    /\ row # ruleRow
    /\ ruleRow' = row
    /\ UNCHANGED <<now, alerts, nextId, schedVars, whVars, engVars, pureVars, extraVars, silences, senderVars,
                   tasks, taskRuns, stopChan, reloader, main>>

runTask ==
    \E h \in DOMAIN taskRuns :
        TaskEvaluate(h) \/ TaskEvaluated(h) \/ TaskTimer(h) \/ TaskStopped(h)

Edit == \E row \in {"enabled", "disabled", "deleted"} : EditRule(row)

InitTasks ==
    /\ now = 0
    /\ alerts = {}
    /\ nextId = 1
    /\ stateCache = <<>>
    /\ rule \in {r \in Rules : r.thresholds = NoThresholds}
    /\ absRun = <<>>
    /\ evalLog = NoEval
    /\ reqs = [h \in Handlers |-> Idle]
    /\ served = 0
    /\ alertQueue = <<>>
    /\ procs = [p \in Procs |-> IdleProc]
    /\ sendRecords = <<>>
    /\ jiraCreated = {}
    /\ jiraIssues = <<>>
    /\ suppressionWindows = <<>>
    /\ sourceSeen = <<>>
    /\ aggLastSent = <<>>
    /\ arrived = 0
    /\ entered = 0
    /\ engRules = <<>>
    /\ mtArgs = NoArgs
    /\ mtResult = NoCall
    /\ mrArgs = NoMatchArgs
    /\ mrResult = NoMatch
    /\ NoExtras
    /\ silences = {}
    /\ NewSender
    /\ ruleRow \in {"enabled", "disabled"}
    /\ tasks = <<>>
    /\ taskRuns = <<>>
    /\ stopChan = FALSE
    /\ reloader = NoReload
    /\ main = [pc |-> "new", rules |-> {}]

NextTasks ==
    \/ StartQuery \/ StartLoad \/ ReloadQuery \/ ReloadLoad \/ ReloadExit
    \/ StopClose \/ StopClear \/ runTask \/ Edit

SpecTasks == InitTasks /\ [][NextTasks]_vars

----------------------------------------------------------------------------
(* Rule scheduler: evaluations until the rule's task stops *)

\* The rule's task and RunRuleNow evaluate the rule only while its row is
\* there, enabled and with a query.
EvaluateEnabled ==
    /\ ruleRow = "enabled"
    /\ Evaluate

InitStop ==
    /\ now = 0
    /\ alerts = {}
    /\ nextId = 1
    /\ stateCache = <<>>
    /\ rule \in {r \in Rules : r.thresholds = NoThresholds}
    /\ absRun = <<>>
    /\ evalLog = NoEval
    /\ reqs = [h \in Handlers |-> Idle]
    /\ served = 0
    /\ alertQueue = <<>>
    /\ procs = [p \in Procs |-> IdleProc]
    /\ sendRecords = <<>>
    /\ jiraCreated = {}
    /\ jiraIssues = <<>>
    /\ suppressionWindows = <<>>
    /\ sourceSeen = <<>>
    /\ aggLastSent = <<>>
    /\ arrived = 0
    /\ entered = 0
    /\ NewScheduler
    /\ NewSender
    /\ silences = {}
    /\ mtArgs = NoArgs
    /\ mtResult = NoCall
    /\ mrArgs = NoMatchArgs
    /\ mrResult = NoMatch
    /\ NoExtras
    /\ engRules = <<>>

NextStop == EvaluateEnabled \/ Edit \/ Tick

SpecStop == InitStop /\ [][NextStop]_vars

\* Whatever can happen does happen.
FairStop == SpecStop /\ WF_vars(NextStop)

----------------------------------------------------------------------------
(* Scheduler: task table *)

LiveFor(runs, id) == {h \in Live(runs) : runs[h].ruleID = id}

\* C23: at most one live evaluation task per rule id.
C23_OneLiveTaskPerRule ==
    \A id \in TaskRuleIds : Cardinality(LiveFor(taskRuns, id)) <= 1

\* C24: when a reload completes for a rule that was found enabled and is still
\* enabled, a live evaluation task exists for the rule.
C24_ReloadLeavesLiveTask ==
    [][(reloader.pc = "loading" /\ reloader'.pc = "wait")
         => \A id \in reloader.rules \cap EnabledRules : LiveFor(taskRuns', id) # {}]_vars

\* C25: once Stop has returned the task table is empty, every evaluation task
\* has terminated, no task is launched and no evaluation starts.
C25_StopTerminatesAll ==
    [][main'.pc = "stopped"
         => /\ tasks' = <<>>
            /\ Live(taskRuns') = {}
            /\ Len(taskRuns') = Len(taskRuns) \/ main.pc # "stopped"]_vars

----------------------------------------------------------------------------
(* Package sender: the Lark rate limiter *)

Min(a, b) == IF a < b THEN a ELSE b

\* rl.tokens after the refill, clamped to burst.  The zero lastTime of the
\* first call is years ago.
Refilled(tok, last, t) ==
    IF last = NoTime THEN burst ELSE Min(burst, tok + (t - last))

Sleeping == {c \in Workers : acquirers[c].pc = "sleep"}

\* acquire up to its sleep: the refill, then the decrement and the return, or
\* the unlock and the sleep of (1 - tokens) / rate.
AcquireEnter(c) ==
    /\ acquirers[c].pc = "idle"
    /\ Len(returned) + Cardinality(Sleeping) < MaxAcquires
    /\ LET t1 == Refilled(tokens, lastTime, clock) IN
         /\ lastTime' = clock
         /\ IF t1 < 1
            THEN /\ tokens' = t1
                 /\ acquirers' = [acquirers EXCEPT ![c].pc = "sleep", ![c].wake = clock + (1 - t1)]
                 /\ returned' = returned
            ELSE /\ tokens' = t1 - 1
                 /\ acquirers' = [acquirers EXCEPT ![c].calls = @ + 1]
                 /\ returned' = Append(returned, clock)
    /\ UNCHANGED <<now, alerts, nextId, schedVars, whVars, engVars, pureVars, extraVars, taskVars,
                   silences, clock, sends>>

\* acquire after its sleep: the lock, tokens = 0, the decrement and the return.
AcquireWake(c) ==
    /\ acquirers[c].pc = "sleep"
    /\ clock >= acquirers[c].wake
    /\ tokens' = 0 - 1
    /\ acquirers' = [acquirers EXCEPT ![c].pc = "idle", ![c].calls = @ + 1]
    /\ returned' = Append(returned, clock)
    /\ UNCHANGED <<now, alerts, nextId, schedVars, whVars, engVars, pureVars, extraVars, taskVars,
                   silences, lastTime, clock, sends>>

\* A token period passes.
ClockTick ==
    /\ clock < MaxClock
    /\ clock' = clock + 1
    /\ UNCHANGED <<now, alerts, nextId, schedVars, whVars, engVars, pureVars, extraVars, taskVars,
                   silences, tokens, lastTime, acquirers, returned, sends>>

acquire == \E c \in Workers : AcquireEnter(c) \/ AcquireWake(c)

InitLimiter ==
    /\ now = 0
    /\ alerts = {}
    /\ nextId = 1
    /\ stateCache = <<>>
    /\ rule \in {r \in Rules : r.thresholds = NoThresholds}
    /\ absRun = <<>>
    /\ evalLog = NoEval
    /\ reqs = [h \in Handlers |-> Idle]
    /\ served = 0
    /\ alertQueue = <<>>
    /\ procs = [p \in Procs |-> IdleProc]
    /\ sendRecords = <<>>
    /\ jiraCreated = {}
    /\ jiraIssues = <<>>
    /\ suppressionWindows = <<>>
    /\ sourceSeen = <<>>
    /\ aggLastSent = <<>>
    /\ arrived = 0
    /\ entered = 0
    /\ engRules = <<>>
    /\ mtArgs = NoArgs
    /\ mtResult = NoCall
    /\ mrArgs = NoMatchArgs
    /\ mrResult = NoMatch
    /\ NoExtras
    /\ silences = {}
    /\ NewScheduler
    /\ NewSender

NextLimiter == acquire \/ ClockTick

SpecLimiter == InitLimiter /\ [][NextLimiter]_vars

\* C27: when acquire returns, tokens is in [0, burst]; it is 0 after a sleep
\* and the refilled count less one otherwise.
C27_TokensInRange ==
    [][\A c \in Workers :
         acquirers'[c].calls = acquirers[c].calls + 1
         => /\ tokens' >= 0 /\ tokens' <= burst
            /\ IF acquirers[c].pc = "sleep" THEN tokens' = 0
               ELSE tokens' = Refilled(tokens, lastTime, clock) - 1]_vars

\* C28: the returns of acquire within any span of T seconds number at most
\* burst + rate * T (T in token periods is rate * T).
C28_ReturnsBounded ==
    \A i, j \in DOMAIN returned :
        i <= j => (j - i) + 1 <= burst + (returned[j] - returned[i])

----------------------------------------------------------------------------
(* Package sender: Send and its retries *)

ChannelTypes == {"telegram", "lark", "webhook"}

\* The engine's record of a top-level call of Send on channel 1 for alert 1.
RecordOf(ok) == SendRecord(1, 1, ok, now, FALSE, <<>>)

\* Send is called by the engine.
Send(c, channelType, configOk) ==
    /\ sends[c].pc = "idle"
    /\ Len(sendRecords) + Cardinality({x \in Workers : sends[x].pc # "idle"}) < MaxSends
    /\ sends' = [sends EXCEPT ![c] = [pc |-> "attempt", channelType |-> channelType,
                                      configOk |-> configOk, attempt |-> 1, slept |-> 0,
                                      lastErr |-> ""]]
    /\ UNCHANGED <<now, alerts, nextId, schedVars, whVars, engVars, pureVars, extraVars, taskVars,
                   silences, tokens, lastTime, clock, acquirers, returned>>

\* What sendTelegram and sendLark return: the configuration error, no error,
\* or the error of the transport.
AttemptErrors(q) ==
    IF ~q.configOk THEN {"invalid config"} ELSE {"", "transport"}

\* One pass of the loop of Send: the attempt, then the return, or the sleep of
\* retryDelay * attempt before the next one.  The engine creates the send
\* record when Send has returned.
SendAttempt(c) ==
    /\ sends[c].pc = "attempt"
    /\ LET q == sends[c] IN
         IF q.channelType \notin {"telegram", "lark"}
         THEN /\ sends' = [sends EXCEPT ![c].pc = "idle", ![c].lastErr = "unsupported"]
              /\ sendRecords' = Append(sendRecords, RecordOf(FALSE))
         ELSE \E err \in AttemptErrors(q) :
                IF err = ""
                THEN /\ sends' = [sends EXCEPT ![c].pc = "idle", ![c].lastErr = ""]
                     /\ sendRecords' = Append(sendRecords, RecordOf(TRUE))
                ELSE IF q.attempt < maxSendRetries
                THEN /\ sends' = [sends EXCEPT ![c].pc = "backoff", ![c].lastErr = err]
                     /\ sendRecords' = sendRecords
                ELSE /\ sends' = [sends EXCEPT ![c].pc = "idle", ![c].lastErr = err]
                     /\ sendRecords' = Append(sendRecords, RecordOf(FALSE))
    /\ UNCHANGED <<now, alerts, nextId, schedVars, whVars, alertQueue, procs, jiraCreated,
                   jiraIssues, engMemory, arrived, entered, engRules, pureVars, extraVars, taskVars,
                   silences, tokens, lastTime, clock, acquirers, returned>>

\* time.Sleep(retryDelay * attempt) returns and the next attempt begins.
SendBackoff(c) ==
    /\ sends[c].pc = "backoff"
    /\ sends' = [sends EXCEPT ![c].pc = "attempt", ![c].attempt = @ + 1,
                              ![c].slept = @ + retryDelay * sends[c].attempt]
    /\ UNCHANGED <<now, alerts, nextId, schedVars, whVars, engVars, pureVars, extraVars, taskVars,
                   silences, tokens, lastTime, clock, acquirers, returned>>

SendCall == \E c \in Workers, t \in ChannelTypes, ok \in BOOLEAN : Send(c, t, ok)

SendLoop == \E c \in Workers : SendAttempt(c) \/ SendBackoff(c)

NextSend == SendCall \/ SendLoop

SpecSend == InitLimiter /\ [][NextSend]_vars

\* C29: a call of Send that ends with the configuration error made one
\* attempt and slept for no retry delay, and the engine appends one send
\* record when a call of Send returns and none otherwise.
C29_NoRetryOnConfigError ==
    [][\A c \in Workers :
         IF sends[c].pc = "attempt" /\ sends'[c].pc = "idle"
         THEN /\ Len(sendRecords') = Len(sendRecords) + 1
              /\ sends'[c].lastErr = "invalid config"
                   => sends'[c].attempt = 1 /\ sends'[c].slept = 0
         ELSE sends'[c] # sends[c] => sendRecords' = sendRecords]_vars

----------------------------------------------------------------------------
(* matchRule as a function of its arguments *)

\* The filters of a rule, parsed: "" and an empty list or map are no filter.
MatchFilters ==
    [matchSeverity : {"", "warning", "critical"},
     datasourceIds : {<<>>, <<1, 2>>, <<2, 3>>},
     matchLabels : {<<>>, [job |-> "api"], [job |-> "other"], [env |-> ""],
                    [job |-> "api", env |-> "prod"]}]

MatchAlerts == [severity : {"warning", "critical"}, sourceId : {1, 3}]

MatchLabelSets == {<<>>, [job |-> "api"], [job |-> "api", env |-> "prod"]}

CallMatchRule ==
    /\ ~mrResult.called
    /\ mrResult' = [called |-> TRUE, matched |-> matchRule(mrArgs.r, mrArgs.a, mrArgs.labels)]
    /\ UNCHANGED <<now, alerts, nextId, schedVars, whVars, engVars, mtArgs, mtResult, mrArgs,
                   taskVars, silences, senderVars, extraVars>>

InitMatch ==
    /\ now = 0
    /\ alerts = {}
    /\ nextId = 1
    /\ stateCache = <<>>
    /\ rule \in {r \in Rules : r.thresholds = NoThresholds}
    /\ absRun = <<>>
    /\ evalLog = NoEval
    /\ reqs = [h \in Handlers |-> Idle]
    /\ served = 0
    /\ alertQueue = <<>>
    /\ procs = [p \in Procs |-> IdleProc]
    /\ sendRecords = <<>>
    /\ jiraCreated = {}
    /\ jiraIssues = <<>>
    /\ suppressionWindows = <<>>
    /\ sourceSeen = <<>>
    /\ aggLastSent = <<>>
    /\ arrived = 0
    /\ entered = 0
    /\ engRules = <<>>
    /\ mtArgs = NoArgs
    /\ mtResult = NoCall
    /\ mrArgs \in [r : MatchFilters, a : MatchAlerts, labels : MatchLabelSets]
    /\ mrResult = NoMatch
    /\ NoExtras
    /\ silences = {}
    /\ NewScheduler
    /\ NewSender

NextMatch == CallMatchRule

SpecMatch == InitMatch /\ [][NextMatch]_vars

\* C30: matchRule is true exactly when matchSeverity is empty or the alert's
\* severity, datasourceIds is empty or holds the alert's sourceId, and every
\* key of matchLabels is a label of the alert with the same value.
C30_MatchRuleIff ==
    mrResult.called =>
      LET r == mrArgs.r
          a == mrArgs.a
          labels == mrArgs.labels
      IN  mrResult.matched <=>
            /\ r.matchSeverity = "" \/ r.matchSeverity = a.severity
            /\ r.datasourceIds = <<>>
                  \/ \E k \in DOMAIN r.datasourceIds : r.datasourceIds[k] = a.sourceId
            /\ \A k \in DOMAIN r.matchLabels :
                  k \in DOMAIN labels /\ labels[k] = r.matchLabels[k]

----------------------------------------------------------------------------
(* inExcludeWindow as a function of the windows and the minute of the day *)

\* What a bound of a window is to fmt.Sscanf("%d:%d"): whether two integers
\* were scanned, and the integers.
Bounds ==
    {[scans |-> FALSE, h |-> 0, m |-> 0], [scans |-> TRUE, h |-> 0, m |-> 0],
     [scans |-> TRUE, h |-> 8, m |-> 0], [scans |-> TRUE, h |-> 22, m |-> 0],
     [scans |-> TRUE, h |-> 24, m |-> 0], [scans |-> TRUE, h |-> 8, m |-> 60]}

parseHM(b) ==
    IF ~b.scans THEN 0 - 1
    ELSE IF b.h < 0 \/ b.h > 23 \/ b.m < 0 \/ b.m > 59 THEN 0 - 1
    ELSE b.h * 60 + b.m

WindowLists == UNION {[1..n -> [start : Bounds, end : Bounds]] : n \in 0..MaxWindows}

\* Minutes of the day around the bounds.
DayMinutes == {0, 479, 480, 1319, 1320}

\* The rule as inExcludeWindow sees it after parseHM.
WindowRule(windows) ==
    [excludeWindows |-> [k \in DOMAIN windows |->
                            [start |-> parseHM(windows[k].start),
                             end |-> parseHM(windows[k].end)]]]

CallInExcludeWindow ==
    /\ ~callResult.called
    /\ callResult' = [called |-> TRUE,
                      value |-> inExcludeWindow(WindowRule(callArgs.windows), callArgs.hm * 60)]
    /\ UNCHANGED <<now, alerts, nextId, schedVars, whVars, engVars, pureVars, taskVars,
                   silences, senderVars, callArgs, datasource, sweep, lockVars>>

InitWindow ==
    /\ now = 0
    /\ alerts = {}
    /\ nextId = 1
    /\ stateCache = <<>>
    /\ rule \in {r \in Rules : r.thresholds = NoThresholds /\ r.id = 1}
    /\ absRun = <<>>
    /\ evalLog = NoEval
    /\ reqs = [h \in Handlers |-> Idle]
    /\ served = 0
    /\ alertQueue = <<>>
    /\ procs = [p \in Procs |-> IdleProc]
    /\ sendRecords = <<>>
    /\ jiraCreated = {}
    /\ jiraIssues = <<>>
    /\ suppressionWindows = <<>>
    /\ sourceSeen = <<>>
    /\ aggLastSent = <<>>
    /\ arrived = 0
    /\ entered = 0
    /\ engRules = <<>>
    /\ mtArgs = NoArgs
    /\ mtResult = NoCall
    /\ mrArgs = NoMatchArgs
    /\ mrResult = NoMatch
    /\ silences = {}
    /\ NewScheduler
    /\ NewSender
    /\ callArgs \in [windows : WindowLists, hm : DayMinutes]
    /\ callResult = NotCalled
    /\ datasource = Prometheus
    /\ sweep = NoSweep
    /\ NoLockers

NextWindow == CallInExcludeWindow

SpecWindow == InitWindow /\ [][NextWindow]_vars

ValidBound(b) == b.scans /\ b.h \in 0..23 /\ b.m \in 0..59

MinuteOf(b) == b.h * 60 + b.m

\* C31: inExcludeWindow is true exactly when some window with valid bounds
\* holds the minute of the day: start <= m < end when start <= end, and
\* m >= start or m < end when start > end.
C31_InExcludeWindowIff ==
    callResult.called =>
      (callResult.value <=>
         \E k \in DOMAIN callArgs.windows :
            LET w == callArgs.windows[k]
                m == callArgs.hm
            IN  /\ ValidBound(w.start) /\ ValidBound(w.end)
                /\ \/ MinuteOf(w.start) <= MinuteOf(w.end)
                         /\ MinuteOf(w.start) <= m /\ m < MinuteOf(w.end)
                   \/ MinuteOf(w.start) > MinuteOf(w.end)
                         /\ (m >= MinuteOf(w.start) \/ m < MinuteOf(w.end)))

\* A window that wraps midnight excluded the minute, after a window with a
\* bound out of range and a window with start = end.
C31_Witness ==
    /\ callResult.called
    /\ callResult.value
    /\ Len(callArgs.windows) = 2
    /\ ~ValidBound(callArgs.windows[1].end)
    /\ MinuteOf(callArgs.windows[2].start) > MinuteOf(callArgs.windows[2].end)
    /\ callArgs.hm < MinuteOf(callArgs.windows[2].end)

----------------------------------------------------------------------------
(* Engine: send-interval throttle *)

\* C2: for every (alertId, channelId) and every matching rule with
\* sendInterval > 0, any two successful send records of the pair are at least
\* sendInterval apart.
C2_SendIntervalThrottle ==
    \A i, j \in DOMAIN sendRecords :
        (/\ i < j
         /\ sendRecords[i].alertId = sendRecords[j].alertId
         /\ sendRecords[i].channelId = sendRecords[j].channelId
         /\ sendRecords[i].success
         /\ sendRecords[j].success)
        => \A k \in DOMAIN engRules :
              engRules[k].sendInterval > 0
              => sendRecords[j].createdAt - sendRecords[i].createdAt >= engRules[k].sendInterval

\* Rule and channel a goroutine inside the loop over the rules works on.
RuleOf(p) == engRules[procs[p].ri]

ChannelOf(p) == ChannelIDs(RuleOf(p), procs[p].job)[procs[p].ci]

InRuleLoop(p) == procs[p].pc = "rule" /\ procs[p].ri <= Len(engRules)

----------------------------------------------------------------------------
(* Engine: recovery *)

\* C11: two successful recovery records of one (alertId, channelId) are at
\* least two minutes apart.
C11_RecoveryOncePerWindow ==
    \A i, j \in DOMAIN sendRecords :
        (/\ i < j
         /\ sendRecords[i].alertId = sendRecords[j].alertId
         /\ sendRecords[i].channelId = sendRecords[j].channelId
         /\ sendRecords[i].success /\ sendRecords[i].recovery
         /\ sendRecords[j].success /\ sendRecords[j].recovery)
        => sendRecords[j].createdAt - sendRecords[i].createdAt >= RecoveryWindowSeconds

\* C12: the recovery dispatch passes over an enabled channel only if a recovery
\* of that (alertId, channelId) was delivered in the preceding two minutes.
C12_RecoverySkippedOnlyAfterRecovery ==
    [][\A p \in Procs :
          (/\ procs[p].pc = "recovery"
           /\ procs'[p].pc = "recovery"
           /\ procs'[p].ci = procs[p].ci + 1
           /\ ChannelEnabled(ChannelOf(p)))
          => \E k \in DOMAIN sendRecords :
                /\ sendRecords[k].alertId = procs[p].job.id
                /\ sendRecords[k].channelId = ChannelOf(p)
                /\ sendRecords[k].success /\ sendRecords[k].recovery
                /\ sendRecords[k].createdAt > now - RecoveryWindowSeconds]_vars

----------------------------------------------------------------------------
(* Engine: gates of the firing dispatch *)

\* C13: the processing of a rule at a local minute inside one of the rule's
\* exclude windows goes on to the next rule, for a firing and for a resolved
\* alert: no sender call, no send record.
C13_NoSendInExcludeWindow ==
    [][\A p \in Procs :
          (InRuleLoop(p) /\ inExcludeWindow(RuleOf(p), now))
          => procs'[p].pc \in {"rule", "idle"}]_vars

\* C14: no ticket is created and no firing send record is written for a rule
\* with duration d while now - firingAt < d; with duration 0 a matching firing
\* alert that no other gate holds back goes on to the ticket and the dispatch.
C14_DurationGate ==
    [][\A p \in Procs :
          /\ (/\ procs[p].pc \in {"jira", "channel", "send"}
              /\ procs'[p] # procs[p]
              /\ sendRecords' # sendRecords \/ jiraIssues' # jiraIssues)
             => now - procs[p].job.firingAt >= RuleOf(p).duration
          /\ (/\ InRuleLoop(p)
              /\ procs'[p] # procs[p]
              /\ procs[p].job.status = "firing"
              /\ RuleOf(p).duration = 0
              /\ ~RuleOf(p).aggregationEnabled
              /\ matchRule(RuleOf(p), procs[p].job, procs[p].job.labels)
              /\ ~inExcludeWindow(RuleOf(p), now)
              /\ ~suppressed(suppressionWindows', RuleOf(p), procs[p].job.labels, now))
             => procs'[p].pc \in {"jira", "channel"}]_vars

\* A ticket and a firing send of a rule with a duration have happened.
C14_Witness ==
    /\ engRules[1].duration > 0
    /\ jiraIssues # <<>>
    /\ \E k \in DOMAIN sendRecords : sendRecords[k].success /\ ~sendRecords[k].recovery

----------------------------------------------------------------------------
(* Engine: tickets *)

SameTicket(x, y) ==
    x.ruleId = y.ruleId /\ x.sourceId = y.sourceId /\ x.externalId = y.externalId

\* C17: the store holds at most one ticket record per (ruleId, sourceId,
\* externalId).
C17_TicketRecordUnique ==
    \A x, y \in jiraCreated : SameTicket(x, y) => x = y

\* Two goroutines created an issue for the same key; one record is stored.
C17_Witness ==
    /\ Len(jiraIssues) >= 2
    /\ SameTicket(jiraIssues[1], jiraIssues[2])
    /\ Cardinality(jiraCreated) = 1

\* C18: at most one issue is created in Jira per (ruleId, sourceId, externalId).
C18_OneIssuePerKey ==
    \A i, j \in DOMAIN jiraIssues : SameTicket(jiraIssues[i], jiraIssues[j]) => i = j

----------------------------------------------------------------------------
(* Engine: suppression *)

\* C19: a firing alert that matches a rule and its suppressedLabels, processed
\* less than duration after an alert matching sourceLabels was processed, goes
\* on to the next rule without a send; processed later than that (or with no
\* such alert before), it is dispatched.
C19_SuppressionWindow ==
    [][\A p \in Procs :
          (/\ InRuleLoop(p)
           /\ procs'[p] # procs[p]
           /\ RuleOf(p).suppression.set
           /\ procs[p].job.status = "firing"
           /\ matchRule(RuleOf(p), procs[p].job, procs[p].job.labels)
           /\ labelsMatch(procs[p].job.labels, RuleOf(p).suppression.suppressedLabels))
          => LET id == RuleOf(p).id
                 d == RuleOf(p).suppression.duration
             IN  /\ (id \in DOMAIN sourceSeen' /\ now < sourceSeen'[id] + d)
                    => procs'[p].pc \in {"rule", "idle"}
                 /\ (id \notin DOMAIN sourceSeen' \/ now > sourceSeen'[id] + d)
                    => procs'[p].pc \in {"jira", "channel"}]_vars

\* Alert 2 was passed over inside the window that alert 1 started.
C19_Witness ==
    /\ 1 \in DOMAIN sourceSeen
    /\ now < sourceSeen[1] + engRules[1].suppression.duration
    /\ \E p \in Procs :
         /\ procs[p].pc = "rule" /\ procs[p].ri = 2 /\ procs[p].job.id = 2
    /\ \A k \in DOMAIN sendRecords : sendRecords[k].alertId # 2

----------------------------------------------------------------------------
(* Engine: hand-off to the worker pool *)

Running == {p \in Procs : procs[p].pc # "idle"}

\* C22: every alert handed to the engine is waiting in the queue or has entered
\* ProcessAlert exactly once, the queue holds at most its capacity, and a
\* further call of ProcessAlertAsync can always complete.
C22_HandOffExactlyOnce ==
    /\ entered + Len(alertQueue) = arrived
    /\ Cardinality(Running) <= entered
    /\ Len(alertQueue) <= QueueSlots
    /\ arrived < Deployment.arrivals => ENABLED Enqueue

\* The queue is full, every worker is busy, and a hand-off took the fallback.
C22_Witness ==
    /\ Len(alertQueue) = QueueSlots
    /\ Workers \subseteq Running
    /\ Running \cap Detached # {}
    /\ arrived > Cardinality(Workers) + QueueSlots

----------------------------------------------------------------------------
(* Engine: manual silence *)

\* C26: while an alert has an active silence (silenceUntil > now) no step
\* appends a send record for it, creates an issue or a ticket record for it,
\* or changes a suppression window on its behalf, and no goroutine is inside
\* ProcessAlert for it; a hand-off at or after silenceUntil enters the rule loop.
C26_SilenceGate ==
    [][\A x \in silences :
         LET a == CHOOSE y \in alerts : y.id = x.alertId IN
         /\ x.silenceUntil > now
              => /\ \A i \in DOMAIN sendRecords' :
                      sendRecords'[i].alertId = x.alertId => i \in DOMAIN sendRecords
                 /\ jiraIssues' = jiraIssues
                 /\ jiraCreated' = jiraCreated
                 /\ suppressionWindows' = suppressionWindows
                 /\ \A p \in Procs : procs'[p].pc # "idle" => procs'[p].job.id # x.alertId
         /\ (x.silenceUntil <= now /\ entered' = entered + 1)
              => \E p \in Procs : procs[p].pc = "idle" /\ procs'[p].pc = "rule"]_vars

\* The silenced alert was handed over and dropped during the silence, and
\* handed over again and notified after it.
C26_Witness ==
    /\ \E x \in silences : x.alertId = 1 /\ x.silenceUntil <= now
    /\ entered = MaxArrivals
    /\ Running = {}
    /\ Len(sendRecords) = 1
    /\ sendRecords[1].alertId = 1
    /\ sendRecords[1].success
    /\ jiraIssues # <<>>

----------------------------------------------------------------------------
(* Engine: aggregation *)

\* C20: two successful aggregated sends of one (ruleId, typeFingerprint) to one
\* channel are at least aggregateWindow apart.
C20_OneAggregatedSendPerWindow ==
    \A i, j \in DOMAIN sendRecords :
        (/\ i < j
         /\ sendRecords[i].aggKey # <<>>
         /\ sendRecords[i].aggKey = sendRecords[j].aggKey
         /\ sendRecords[i].channelId = sendRecords[j].channelId
         /\ sendRecords[i].success /\ sendRecords[j].success)
        => \A k \in DOMAIN engRules :
              engRules[k].id = sendRecords[i].aggKey[1]
              => sendRecords[j].createdAt - sendRecords[i].createdAt
                    >= engRules[k].aggregateWindow

\* C21: the aggregation instant of a (ruleId, typeFingerprint) is stored only
\* when an aggregated send of that key succeeded.
C21_LastSentOnlyOnSuccess ==
    [][\A key \in DOMAIN aggLastSent' :
          (key \notin DOMAIN aggLastSent \/ aggLastSent'[key] # aggLastSent[key])
          => \E i \in DOMAIN sendRecords :
                sendRecords[i].aggKey = key /\ sendRecords[i].success]_vars

----------------------------------------------------------------------------
(* Scheduler: grace-period resolution *)

\* lastResults of the rule, empty when the rule has no queryState yet.
lr == IF rule.id \in DOMAIN stateCache THEN stateCache[rule.id] ELSE <<>>

HandedFor(id) == {j \in DOMAIN evalLog.handed : evalLog.handed[j].id = id}

----------------------------------------------------------------------------
(* Scheduler: threshold filter *)

\* Fingerprint of the i-th returned series.
SeriesKey(r, s, i) ==
    KeyForSeriesWithRule(r.datasourceIds[1], r.id, <<r.name, formatMetric(s.metric)>>,
                         s.metric, i - 1)

\* C16: with thresholds configured, a returned series whose value matches no
\* level is outside the firing set, is neither upserted nor handed over, counts
\* as a miss, and its firing row is resolved at the third such evaluation in a
\* row; with thresholds "", "[]" or "null" every returned series is in the
\* firing set.
C16_ThresholdFilter ==
    evalLog.ran =>
      \A i \in DOMAIN evalLog.result :
        LET s == evalLog.result[i]
            key == SeriesKey(rule, s, i)
            levels == rule.thresholds.levels
        IN  IF rule.thresholds.text \in {"", "[]", "null"} THEN key \in evalLog.cur
            ELSE IF \E l \in DOMAIN levels : Holds(levels[l], s.value) THEN key \in evalLog.cur
            ELSE /\ key \notin evalLog.cur
                 /\ key \notin evalLog.upserted
                 /\ key \in DOMAIN absRun => absRun[key] >= 1
                 /\ (key \in DOMAIN evalLog.preMiss
                        /\ evalLog.preMiss[key] = resolveGracePeriod - 1)
                    => /\ key \notin DOMAIN lr
                       /\ \A a \in alerts : a.externalId = key => a.status = "resolved"

\* A firing alert was resolved by the third evaluation that returned its
\* series with a value below every level.
C16_Witness ==
    /\ evalLog.ran
    /\ rule.thresholds = TwoLevels
    /\ \E i \in DOMAIN evalLog.result :
         LET key == SeriesKey(rule, evalLog.result[i], i) IN
         /\ key \notin evalLog.cur
         /\ key \in DOMAIN evalLog.preMiss
         /\ evalLog.preMiss[key] = resolveGracePeriod - 1
         /\ \E a \in alerts : a.externalId = key /\ a.status = "resolved"

----------------------------------------------------------------------------
(* Alert rows: lifecycle *)

\* C1: for every (sourceId, externalId) the store holds at most one row with
\* status firing.
C1_FiringSingleton ==
    \A a, b \in alerts :
      (/\ a.sourceId = b.sourceId /\ a.externalId = b.externalId
       /\ a.status = "firing" /\ b.status = "firing")
      => a.id = b.id

\* C7: a webhook element with status firing that found a firing row leaves the
\* row's id and firingAt unchanged and stores the element's title, severity,
\* labels and annotations.
C7_WebhookKeepsFiringAt ==
    [][\A h \in Handlers :
          (/\ reqs[h].pc = "write" /\ reqs'[h].pc = "idle"
           /\ reqs[h].hasFiring /\ reqs[h].status # "resolved")
          => \E b \in alerts' :
               /\ b.id = reqs[h].alert.id
               /\ b.firingAt = reqs[h].alert.firingAt
               /\ b.title = reqs[h].title /\ b.severity = reqs[h].severity
               /\ b.labels = reqs[h].labels /\ b.annotations = reqs[h].annotations]_vars

\* C9: a row with status resolved stays resolved, with the same id and the
\* same resolvedAt.
C9_ResolvedIsTerminal ==
    [][\A a \in alerts :
          a.status = "resolved"
          => \E b \in alerts' :
               b.id = a.id /\ b.status = "resolved" /\ b.resolvedAt = a.resolvedAt]_vars

\* C10: a row moved from firing to resolved has resolvedAt set.
C10_ResolvedAtSet ==
    [][\A a \in alerts : \A b \in alerts' :
          (a.id = b.id /\ a.status = "firing" /\ b.status = "resolved")
          => b.resolvedAt # NoTime]_vars

C32_Reprocessed ==
    /\ evalLog.ran
    /\ \E i \in DOMAIN evalLog.result :
         LET k == SeriesKey(rule, evalLog.result[i], i)
         IN  /\ k \in evalLog.upserted \cap DOMAIN evalLog.preMiss
             /\ evalLog.preMiss[k] = 0
             /\ \E a \in alerts : a.externalId = k /\ a.createdAt + ReprocessSeconds <= now

\* C33: an evaluation that returns before results are obtained (no datasource
\* id, datasource missing or disabled, unsupported type, failed query) leaves
\* every state entry, miss counters included, and every alert row as they
\* were and hands nothing to the engine.
C33_SkippedEvaluationFrame ==
    [][(evalLog'.skipped # "" /\ now' = now /\ datasource' = datasource)
         => /\ stateCache' = stateCache
            /\ alerts' = alerts
            /\ evalLog'.handed = <<>>
            /\ evalLog'.upserted = {}]_vars

\* The query failed while a firing series was one miss short of the end of its
\* grace period.
C33_Witness ==
    /\ evalLog.skipped = "query failed"
    /\ \E k \in DOMAIN lr :
         /\ lr[k].missCount = resolveGracePeriod - 1
         /\ \E a \in alerts : a.id = lr[k].alertId /\ a.status = "firing"

\* The evaluation was skipped for a disabled datasource with a miss counted.
C33_DisabledReached ==
    /\ evalLog.skipped = "disabled"
    /\ \E k \in DOMAIN lr : lr[k].missCount > 0

\* C34: in the recovery branch, when ProcessAlert passes over a channel that is
\* missing or disabled, it appends a failure send record of the alert and
\* the channel.
C34_RecoverySkipRecorded ==
    [][\A p \in Procs :
          LET q == procs[p]
              chs == ChannelIDs(engRules[q.ri], q.job)
          IN  (/\ q.pc = "recovery" /\ q.ci <= Len(chs)
               /\ ~ChannelEnabled(chs[q.ci])
               /\ ~recoveryAlreadySent(sendRecords, q.job.id, chs[q.ci], now)
               /\ procs'[p] # q)
              => /\ Len(sendRecords') = Len(sendRecords) + 1
                 /\ sendRecords'[Len(sendRecords')].alertId = q.job.id
                 /\ sendRecords'[Len(sendRecords')].channelId = chs[q.ci]
                 /\ ~sendRecords'[Len(sendRecords')].success]_vars

\* C35: when a retention sweep completes, no send record is left whose alert
\* was deleted by the sweep, also when ProcessAlert creates send records of
\* those alerts while the sweep runs.
C35_NoOrphanSendRecord ==
    [][(sweep.pc = "alerts" /\ sweep'.pc = "idle")
         => \A i \in DOMAIN sendRecords' :
               sendRecords'[i].alertId \notin {a.id : a \in alerts \ alerts'}]_vars

\* C36: a firing alert that matches a rule with aggregation, passes the
\* duration, exclude-window and suppression gates and has no aggregated send
\* of its (ruleId, typeFingerprint) inside the window goes on to the
\* aggregated dispatch, whatever the query for firing alerts with firingAt
\* inside the window returns.
C36_AggregatedDispatchHappens ==
    [][\A p \in Procs :
          LET q == procs[p]
              r == engRules[q.ri]
              key == aggStateKey(r, q.job.labels)
          IN  (/\ q.pc = "rule" /\ q.ri <= Len(engRules)
               /\ procs'[p] # q
               /\ r.aggregationEnabled /\ r.aggregateBy # "" /\ r.aggregateWindow # 0
               /\ matchRule(r, q.job, q.job.labels) /\ ChannelIDs(r, q.job) # <<>>
               /\ q.job.status = "firing"
               /\ durationSatisfied(r, q.job, now)
               /\ ~inExcludeWindow(r, now)
               /\ ~suppressed(suppressionWindows', r, q.job.labels, now)
               /\ ~JiraWanted(r, q.job, alerts, jiraCreated)
               /\ ~(key \in DOMAIN aggLastSent /\ now - aggLastSent[key] < r.aggregateWindow))
              => procs'[p].pc = "channel" /\ procs'[p].agg]_vars

HoldsStateMu(p) == stateMu.writer = p \/ stateMu.pending = p \/ p \in stateMu.readers

HoldsState(p) == \E r \in LockRules : stateLocks[r].writer = p \/ p \in stateLocks[r].readers

\* C37: a goroutine that holds a rule's state lock neither holds nor waits for
\* stateMu, and whenever goroutines are inside an evaluation or inside
\* FiringCountByRule one of them can take its next step.
C37_NoDeadlock ==
    /\ \A p \in Lockers :
          HoldsState(p) => ~(stateMu.writer = p \/ stateMu.pending = p)
                           /\ lockers[p].pc # "lockCache"
    /\ (\E p \in Lockers : lockers[p].pc # "idle")
          => \E p \in Lockers : lockers[p].pc # "idle" /\ ENABLED LockerStep(p)

\* Every goroutine that entered an evaluation or FiringCountByRule returns.
C37_LocksObtained ==
    \A p \in Lockers : (lockers[p].pc # "idle") ~> (lockers[p].pc = "idle")

\* A reader inside stateMu waits for the lock of rule 1, which an evaluation
\* holds, while RunRuleNow's evaluation of rule 1 and the task of rule 2 wait.
C37_Witness ==
    /\ lockers["f1"].pc = "rlockState" /\ lockers["f1"].cur = 1
    /\ "f1" \in stateMu.readers
    /\ stateLocks[1].writer = "t1"
    /\ lockers["n1"].pc = "lockState"
    /\ stateMu.pending = "t2"

\* C38: for the same source id, title and labels the key differs between
\* rule ids, and another position in the result gives another key exactly
\* when labels["instance"] and labels["job"] are both empty or absent.
C38_KeyByRuleAndIndex ==
    callResult.called =>
      /\ \A other \in (1..3) \ {callArgs.ruleID} :
            KeyForSeriesWithRule(callArgs.sourceID, other, callArgs.title, callArgs.labels,
                                 callArgs.resultIndex) # callResult.value
      /\ \A j \in (0..MaxIndex) \ {callArgs.resultIndex} :
            (KeyForSeriesWithRule(callArgs.sourceID, callArgs.ruleID, callArgs.title,
                                  callArgs.labels, j) # callResult.value)
            <=> (Label(callArgs.labels, "instance") = "" /\ Label(callArgs.labels, "job") = "")

\* The key of a series at position 1 with an empty instance label and a job.
C38_Witness ==
    /\ callResult.called
    /\ callArgs.resultIndex = 1
    /\ "instance" \in DOMAIN callArgs.labels /\ callArgs.labels["instance"] = ""
    /\ Label(callArgs.labels, "job") = "x"
    /\ callResult.value[5] = 0 - 1

\* C39: with the firing copy of an alert handed to ProcessAlertAsync before
\* its resolved copy, no firing notification of the alert is sent after its
\* recovery notification.
C39_NoFiringAfterRecovery ==
    \A i, j \in DOMAIN sendRecords :
        (/\ i < j
         /\ sendRecords[i].alertId = sendRecords[j].alertId
         /\ sendRecords[i].success /\ sendRecords[j].success
         /\ sendRecords[i].recovery)
        => sendRecords[j].recovery

\* C40: once the rule is disabled, deleted or without a query, so that its
\* task stops, every firing row the rule left is eventually resolved and its
\* state entries are eventually removed.
C40_StoppedRuleCleansUp ==
    (ruleRow # "enabled")
      ~> (/\ \A a \in alerts : a.status # "firing"
          /\ DOMAIN lr = {})

============================================================================
